---- MODULE Spec2Model ----
(***************************************************************************)
(* A model of the jsonrpsee WebSocket server:                              *)
(*   - ws-server/src/raw/core.rs : RawServer, the dispatcher that owns the *)
(*     batch tracker, the subscription registry and the transport;         *)
(*   - ws-server/src/server.rs   : Server (the clonable front-end handle)  *)
(*     and background_task, the single task that drives the dispatcher.    *)
(* The batch tracker (jsonrpsee_types::jsonrpc::wrapped::batches) and the  *)
(* transport (crate::transport::WsTransportServer) are collaborators whose *)
(* code is not part of the modelled sources; they are modelled from their  *)
(* documented contract.                                                    *)
(*                                                                         *)
(* Specifications:                                                         *)
(*   RawSpec : an arbitrary user of the RawServer API (next_event,         *)
(*             respond, into_subscription, push, close).                   *)
(*   Spec    : the Server: front-end handle, handlers and background_task. *)
(*   RegSpec : the front-end registration calls with arbitrary names.      *)
(***************************************************************************)
EXTENDS Integers, Sequences, FiniteSets, TLC

----------------------------------------------------------------------------
(* Bounds of the model *)

\* number of messages the transport delivers in one run
MaxInject == 2
\* number of values the application broadcasts (Spec)
MaxNotif == 2
\* number of values the user of the RawServer pushes (RawSpec)
MaxPush == 1
\* scaled-down buffer of a handler channel, mpsc::channel(32) in the code
ChannelBuffer == 1

\* the number of bytes of a subscription id (32 in the code)
IdLen == 2
\* the longest string given to from_wire_message (Base58Spec)
MaxString == 4

----------------------------------------------------------------------------
(* Input domains *)

\* transport connections (RequestId values of the transport)
Conns == {"c1", "c2"}

\* the clones of Server that threads of the application hold
Clones == {"h1", "h2"}
\* Option::None of a batch's connection tag
None == "None"
\* the values rand::random() can return for a subscription id
SubIds == {"A", "B"}
\* a wire parameter that does not parse as a subscription id
BadParam == "bad"
\* no parameter
NoParam == "-"

----------------------------------------------------------------------------
(* Finite maps (HashMap): functions whose domain is the set of keys *)

Put(f, k, v) == [x \in (DOMAIN f) \cup {k} |-> IF x = k THEN v ELSE f[x]]

Remove(f, k) == [x \in (DOMAIN f) \ {k} |-> f[x]]

EmptyMap == [x \in {} |-> 0]

\* the sequence s without its i-th element (Vec::remove)
SeqRemove(s, i) == [j \in 1..(Len(s) - 1) |-> IF j < i THEN s[j] ELSE s[j + 1]]

\* the elements of s that are not x (Vec::retain(|c| *c != x))
RECURSIVE Retain(_, _)
Retain(s, x) ==
    IF s = <<>> THEN <<>>
    ELSE IF Head(s) = x THEN Retain(Tail(s), x)
         ELSE <<Head(s)>> \o Retain(Tail(s), x)

\* the number of elements of s equal to x
RECURSIVE Count(_, _)
Count(s, x) ==
    IF s = <<>> THEN 0
    ELSE (IF Head(s) = x THEN 1 ELSE 0) + Count(Tail(s), x)

\* the first position of x in s, 0 when absent (Iterator::position)
Position(s, x) ==
    IF \E i \in 1..Len(s) : s[i] = x
    THEN CHOOSE i \in 1..Len(s) : s[i] = x /\ \A j \in 1..(i - 1) : s[j] # x
    ELSE 0

Range(s) == {s[i] : i \in 1..Len(s)}

----------------------------------------------------------------------------
(* State *)

VARIABLES
    \* ---- transport (WsTransportServer) ----
    closed,             \* connections whose Closed event the dispatcher has taken
    resumable,          \* connections for which supports_resuming is true
    ninj,               \* number of messages delivered so far
    wire,               \* connection -> the calls of transport send / finish, in order
    \* ---- RawServer ----
    batches,            \* BatchesState<Option<RequestId>>: slot -> batch
    subscriptions,      \* HashMap<[u8; 32], SubscriptionState>
    num_subscriptions,  \* HashMap<RequestId, NonZeroUsize>
    inflight,           \* the ReadyToSend a suspended next_event holds
    \* ---- history of the dispatcher ----
    clock,              \* number of values pushed or broadcast to subscribers so far
    emitted,            \* batch number -> the ReadyToSend events produced for it
    \* ---- Server front-end ----
    registered_names,   \* Server::registered_methods (the mutex-guarded set)
    next_uid,           \* Server::next_subscription_unique_id
    from_front,         \* the control queue to_back / from_front
    lastret,            \* what the last front-end call returned
    callers,            \* clone of Server -> its position in a registration call
    \* ---- application ----
    hqueue,             \* method name -> the handler queue of RegisteredMethod
    parked,             \* the method names whose mpsc::Sender is parked
    nnotif,             \* number of values broadcast or pushed so far
    \* ---- background_task ----
    registered_notifications,
    registered_methods,
    subscribe_methods,
    unsubscribe_methods,
    subscribed_clients,
    active_subscriptions,
    task                \* "running", "panicked" or "terminated"

transportvars == <<closed, resumable, ninj, wire>>
rawvars == <<batches, subscriptions, num_subscriptions, inflight>>
histvars == <<clock, emitted>>
frontvars == <<registered_names, next_uid, from_front, lastret, callers>>
appvars == <<hqueue, parked, nnotif>>
bgvars == <<registered_notifications, registered_methods, subscribe_methods,
            unsubscribe_methods, subscribed_clients, active_subscriptions, task>>
vars == <<transportvars, rawvars, histvars, frontvars, appvars, bgvars>>

----------------------------------------------------------------------------
(* The batch tracker: batches::BatchesState<Option<RequestId>>.             *)
(* A batch is [no, user_param, elems, done_at]: no numbers the transport    *)
(* message it came from, user_param is the connection tag, done_at the      *)
(* value of clock when its last response was set. An element is a call or   *)
(* a notification; st is "new" (not yet produced by next_event),            *)
(* "surfaced" (produced, no response yet) or "answered". Two fields record  *)
(* the history of an element: surf counts the Request events produced for   *)
(* it, api tells that respond or into_subscription set its response, sub is *)
(* what the last into_subscription on it returned.                          *)

NoResp == [tag |-> "none", val |-> NoParam]

Elem(e) == [kind |-> e.kind, method |-> e.method, param |-> e.param, id |-> e.id,
            st |-> "new", resp |-> NoResp, surf |-> 0, api |-> FALSE, sub |-> "none",
            hand |-> FALSE, late |-> FALSE]

Slots == 1..MaxInject

FreeSlots(b) == Slots \ DOMAIN b

\* BatchesState::inject
inject(b, msg, tag, no, prior) ==
    LET s == CHOOSE x \in FreeSlots(b) : \A y \in FreeSlots(b) : x <= y
    IN Put(b, s, [no |-> no, user_param |-> tag, prior |-> prior,
                  elems |-> [i \in 1..Len(msg) |-> Elem(msg[i])], done_at |-> 0])

IsReady(batch) == \A i \in 1..Len(batch.elems) : batch.elems[i].st = "answered"

HasCall(batch) == \E i \in 1..Len(batch.elems) : batch.elems[i].kind = "call"

\* the next element BatchesState::next_event produces from a batch, 0 if none
NewIdx(batch) ==
    IF \E i \in 1..Len(batch.elems) : batch.elems[i].st = "new"
    THEN CHOOSE i \in 1..Len(batch.elems) :
            /\ batch.elems[i].st = "new"
            /\ \A j \in 1..(i - 1) : batch.elems[j].st # "new"
    ELSE 0

\* BatchesState::next_event returns None
Drained(b) == \A s \in DOMAIN b : NewIdx(b[s]) = 0 /\ ~IsReady(b[s])

\* the batch tracker after next_event has produced element i of slot s
Surface(b, s, i) ==
    LET e1 == [b[s].elems EXCEPT ![i].st =
                  IF b[s].elems[i].kind = "call" THEN "surfaced" ELSE "answered",
                                 ![i].surf = @ + 1]
        b1 == [b EXCEPT ![s].elems = e1]
    IN IF IsReady(b1[s]) /\ ~HasCall(b1[s]) THEN Remove(b1, s) ELSE b1

\* BatchesState::request_by_id(id) is Some
request_by_id(b, rid) ==
    /\ rid.slot \in DOMAIN b
    /\ rid.idx \in 1..Len(b[rid.slot].elems)
    /\ b[rid.slot].elems[rid.idx].kind = "call"
    /\ b[rid.slot].elems[rid.idx].st = "surfaced"

\* BatchesElem::set_response
set_response(b, rid, response, now) ==
    LET e1 == [b[rid.slot].elems EXCEPT ![rid.idx].st = "answered",
                                        ![rid.idx].resp = response]
        done == \A j \in 1..Len(e1) : e1[j].st = "answered"
    IN [b EXCEPT ![rid.slot].elems = e1,
                 ![rid.slot].done_at = IF done THEN now ELSE @]

\* a faulty Closed(c): the tags are left as they are
NullTagsKept(b, c) == b

\* a faulty Closed(c): the tag of every batch is set to None
NullTagsAll(b, c) == [s \in DOMAIN b |-> [b[s] EXCEPT !.user_param = None]]

\* next_event on Closed(c), lines 208-212: the tags of connection c set to None
NullTags(b, c) ==
    [s \in DOMAIN b |-> IF b[s].user_param = c
                        THEN [b[s] EXCEPT !.user_param = None] ELSE b[s]]

\* a faulty output: the id of the request is not copied
OutputWithoutId(e) ==
    [id |-> 0, tag |-> e.resp.tag, val |-> e.resp.val, method |-> e.method, hand |-> e.hand]

\* the output of one request: its response under the id of the request
\* (history: method is the method of the request, hand tells that the request
\* was put in the queue of a handler)
Output(e) ==
    [id |-> e.id, tag |-> e.resp.tag, val |-> e.resp.val, method |-> e.method, hand |-> e.hand]

\* the reply of a batch: the outputs of its calls, in order
RECURSIVE ReplyOf(_)
ReplyOf(elems) ==
    IF elems = <<>> THEN <<>>
    ELSE (IF Head(elems).kind = "call" THEN <<Output(Head(elems))>> ELSE <<>>)
         \o ReplyOf(Tail(elems))

Rid(s, i) == [slot |-> s, idx |-> i]

\* history: respond or into_subscription set the response of request rid;
\* late tells that the batch had no tag then
MarkApi(b, rid) ==
    [b EXCEPT ![rid.slot].elems[rid.idx].api = TRUE,
              ![rid.slot].elems[rid.idx].late = (b[rid.slot].user_param = None)]

\* history: request rid was put in the queue of a handler
MarkHand(b, rid) == [b EXCEPT ![rid.slot].elems[rid.idx].hand = TRUE]

\* history: into_subscription on request rid returned result
MarkSub(b, rid, result) == [b EXCEPT ![rid.slot].elems[rid.idx].sub = result]

\* every request of the batch had its response set by respond / into_subscription
AllApi(batch) ==
    \A i \in 1..Len(batch.elems) :
        batch.elems[i].kind = "call" => batch.elems[i].api /\ batch.elems[i].surf = 1

\* history: one more ReadyToSend for batch; n counts them, ok tells that every
\* request had been answered at each of them, tag is the connection tag
Emit(f, batch) ==
    Put(f, batch.no,
        [n |-> IF batch.no \in DOMAIN f THEN f[batch.no].n + 1 ELSE 1,
         ok |-> AllApi(batch) /\ (batch.no \in DOMAIN f => f[batch.no].ok),
         tag |-> batch.user_param,
         size |-> Len(ReplyOf(batch.elems)),
         prior |-> batch.prior,
         late |-> \E i \in 1..Len(batch.elems) : batch.elems[i].late])

----------------------------------------------------------------------------
(* The transport: WsTransportServer *)

\* WsTransportServer::supports_resuming(id).unwrap_or(false)
supports_resuming(c) == c \in resumable

\* a call of WsTransportServer::send / finish, as recorded in wire
\* kind is "reply" (of batch no, with body), "notif" (value val of subscription
\* sub, whose subscribe request was in batch no) or "close" (no payload).
\* cause dates the operation that caused the call, at the time of the call,
\* both counted in values broadcast so far (clock).
SendCall(kind, no, body, sub, val, cause, at) ==
    [op |-> "send", kind |-> kind, no |-> no, body |-> body,
     sub |-> sub, val |-> val, cause |-> cause, at |-> at]

FinishCall(kind, no, body, cause, at) ==
    [op |-> "finish", kind |-> kind, no |-> no, body |-> body,
     sub |-> NoParam, val |-> NoParam, cause |-> cause, at |-> at]

\* a faulty finish: the connection of the client is gone after the reply
finishDisconnects(cl, c) == cl \cup {c}

\* WsTransportServer::finish: the connections that are closed after a reply
\* was written with finish on c; the client can go on using its connection
finish(cl, c) == cl

\* wire after one more call on connection c
Write(w, c, call) == [w EXCEPT ![c] = Append(@, call)]

----------------------------------------------------------------------------
(* RawServer *)

NoInflight == [op |-> "none", conn |-> None, no |-> 0, body |-> <<>>, cause |-> 0]

SubsOf(subs, c) == {id \in DOMAIN subs : subs[id].raw_id = c}

\* a faulty respond: the response is set on every request of the batch
respondWholeBatch(b, rid, response, now) ==
    [b EXCEPT ![rid.slot].elems =
                 [j \in 1..Len(@) |-> [@[j] EXCEPT !.st = "answered", !.resp = response]],
              ![rid.slot].done_at = now]

\* RawServerRequest::respond
respond(b, rid, response, now) == set_response(b, rid, response, now)

\* the value of the digits s, most significant first, in the given radix
RECURSIVE ToNumber(_, _)
ToNumber(s, radix) ==
    IF s = <<>> THEN 0
    ELSE ToNumber(SubSeq(s, 1, Len(s) - 1), radix) * radix + s[Len(s)]

\* the digits of n in the given radix, most significant first; none for 0
RECURSIVE FromNumber(_, _)
FromNumber(n, radix) ==
    IF n = 0 THEN <<>> ELSE Append(FromNumber(n \div radix, radix), n % radix)

\* the number of zeros s starts with
RECURSIVE LeadingZeros(_)
LeadingZeros(s) ==
    IF s = <<>> \/ Head(s) # 0 THEN 0 ELSE 1 + LeadingZeros(Tail(s))

Zeros(k) == [i \in 1..k |-> 0]

\* bs58::encode(bytes).into_string(): a string is the sequence of the
\* positions of its characters in the alphabet; a leading zero byte becomes
\* the character at position 0, the other bytes are one number written in
\* base 58
bs58_encode(bytes) ==
    Zeros(LeadingZeros(bytes)) \o FromNumber(ToNumber(bytes, 256), 58)

Ok(v) == [ok |-> TRUE, v |-> v]

Err == [ok |-> FALSE, v |-> <<>>]

\* bs58::decode(string).into_vec(): an error for a character that is not in
\* the alphabet (a position of 58 or more)
bs58_decode(string) ==
    IF \E i \in 1..Len(string) : string[i] >= 58 THEN Err
    ELSE Ok(Zeros(LeadingZeros(string)) \o FromNumber(ToNumber(string, 58), 256))

\* JSON values: a string, or a value that is no string
JsonString(s) == [str |-> TRUE, s |-> s]

JsonOther == [str |-> FALSE, s |-> <<>>]

\* a faulty from_wire_message: a short value is padded on the right
from_wire_messageRightPad(params) ==
    IF ~params.str THEN Err
    ELSE LET decoded == bs58_decode(params.s)
         IN IF ~decoded.ok THEN Err
            ELSE IF Len(decoded.v) > IdLen THEN Err
            ELSE Ok(decoded.v \o Zeros(IdLen - Len(decoded.v)))

\* RawServerSubscriptionId::from_wire_message (lines 387-402)
from_wire_message(params) ==
    IF ~params.str THEN Err
    ELSE LET decoded == bs58_decode(params.s)
         IN IF ~decoded.ok THEN Err
            ELSE IF Len(decoded.v) > IdLen THEN Err
            ELSE Ok(Zeros(IdLen - Len(decoded.v)) \o decoded.v)

\* the bytes of the ids of the model: A ends with a one, B starts with a one,
\* every other byte is zero
IdBytes(id) ==
    [i \in 1..IdLen |-> IF (id = "A" /\ i = IdLen) \/ (id = "B" /\ i = 1) THEN 1 ELSE 0]

\* bs58::encode(id).into_string() as a JSON string: the string is named by
\* the id, WireString gives its characters
WireId(id) == id

WireString(id) == JsonString(bs58_encode(IdBytes(id)))

\* the JSON value that try_from finds in the parameters of a request
JsonOf(param) == IF param \in SubIds THEN WireString(param) ELSE JsonOther

\* TryFrom<Params> for RawServerSubscriptionId (lines 407-419): the id that
\* from_wire_message returns for the parameters, or BadParam for Err(())
try_from(param) ==
    LET r == from_wire_message(JsonOf(param))
    IN IF r.ok /\ \E id \in SubIds : IdBytes(id) = r.v
       THEN CHOOSE id \in SubIds : IdBytes(id) = r.v
       ELSE BadParam

\* the parameters of the requests clients send
ParamChoices == SubIds \cup {BadParam, NoParam}

\* try_from on each parameter a client can send, computed once
ParsedIds == [param \in ParamChoices |-> try_from(param)]

\* a faulty into_subscription: the transport is asked before the tag is looked at
IntoSubscriptionResultNoTagCheck(b, rid) ==
    IF ~supports_resuming(b[rid.slot].user_param) THEN "NotSupported"
    ELSE IF b[rid.slot].user_param = None THEN "Closed"
    ELSE "Ok"

\* RawServerRequest::into_subscription: what it returns
IntoSubscriptionResult(b, rid) ==
    IF b[rid.slot].user_param = None THEN "Closed"
    ELSE IF ~supports_resuming(b[rid.slot].user_param) THEN "NotSupported"
    ELSE "Ok"

\* a faulty sampling loop: it ends on its first sample, occupied or not
VacantFirstSample(subs) == SubIds

\* the ids the sampling loop of into_subscription can end on (lines 347-358):
\* the sampled ids that are vacant. Ids are interchangeable, so the first id
\* of an empty registry is fixed.
Vacant(subs) ==
    IF DOMAIN subs = {} THEN {"A"} ELSE SubIds \ DOMAIN subs

\* into_subscription, the registry after inserting the sampled id
\* (origin is history: the number of the batch of the subscribe request)
InsertSubscription(subs, new, c, method, origin) ==
    Put(subs, new, [raw_id |-> c, method |-> method, pending |-> TRUE, origin |-> origin])

\* into_subscription, the per-connection count after the insertion
IncrementCount(num, c) ==
    IF c \in DOMAIN num THEN [num EXCEPT ![c] = @ + 1] ELSE Put(num, c, 1)

\* a faulty close: the count of the last subscription is left in place
DecrementCountKeepsEntry(num, c) ==
    IF num[c] >= 2 THEN [num EXCEPT ![c] = @ - 1] ELSE num

\* ServerSubscription::close, the per-connection count after the removal
DecrementCount(num, c) ==
    IF num[c] >= 2 THEN [num EXCEPT ![c] = @ - 1] ELSE Remove(num, c)

\* next_event on ReadyToSend: the subscriptions of c made ready
ClearPending(subs, c) ==
    [id \in DOMAIN subs |-> IF subs[id].raw_id = c
                            THEN [subs[id] EXCEPT !.pending = FALSE] ELSE subs[id]]

\* next_event on ReadyToSend: the ids SubscriptionsReady lists (lines 181-187)
ReadyIds(subs, c) == {id \in DOMAIN subs : subs[id].raw_id = c}

\* a faulty removal: the subscriptions of every connection are removed
DropSubscriptionsOfAll(subs, c) == EmptyMap

\* next_event on Closed(c): the registry without the subscriptions of c
DropSubscriptions(subs, c) == [id \in (DOMAIN subs) \ SubsOf(subs, c) |-> subs[id]]

\* next_event on Closed(c): the counts without the entry of c
DropCount(num, c) == Remove(num, c)

\* ServerSubscription::push: the transport calls after pushing value on id
push(w, subs, id, value, cause) ==
    IF subs[id].pending THEN w
    ELSE Write(w, subs[id].raw_id,
               SendCall("notif", subs[id].origin, <<>>, WireId(id), value, cause, cause))

----------------------------------------------------------------------------
(* Inputs of a run *)

Call(m, p) == [kind |-> "call", method |-> m, param |-> p]

Notif(m) == [kind |-> "notif", method |-> m, param |-> NoParam]

\* the unsubscribe calls a client sends: through either unsubscribe method,
\* with an id or with a value that is no id
UnsubCalls == {Call("unsub0", "A"), Call("unsub0", "B"), Call("unsub1", "A"),
               Call("unsub0", BadParam)}

SingleElems == {Call("m", NoParam), Call("sub0", NoParam), Call("x", NoParam), Notif("n")}
               \cup UnsubCalls

\* the parsed messages the transport delivers in Spec: single elements and
\* two batches
Messages == {<<e>> : e \in SingleElems} \cup
            {<<Call("sub0", NoParam), Call("m", NoParam)>>,
             <<Call("m", NoParam), Call("m", NoParam)>>}

\* the messages of RawSpec, whose user does not look at method names
RawMessages == {<<Call("m", NoParam)>>, <<Call("m", NoParam), Call("m", NoParam)>>,
                <<Notif("n")>>}

\* the JSON-RPC id of request i of the k-th message: a client gives every
\* request an id of its own
RequestId(k, i) == 2 * (k - 1) + i

\* message msg, the k-th the transport delivers, with the ids of its requests
\* (a notification has none: 0)
WithIds(msg, k) ==
    [i \in 1..Len(msg) |->
        [kind |-> msg[i].kind, method |-> msg[i].method, param |-> msg[i].param,
         id |-> IF msg[i].kind = "call" THEN RequestId(k, i) ELSE 0]]

\* what supports_resuming can answer: every connection can be resumed, or
\* only c1 can
ResumableChoices == {Conns, {"c1"}}

OkResp(v) == [tag |-> "ok", val |-> v]

\* a clone of Server on which no call is running (ret and name are what its
\* last call returned)
Idle == [pc |-> "idle", op |-> "none", a |-> "-", b |-> "-", al |-> FALSE, uid |-> 0,
         ret |-> "none", name |-> "-"]

ErrResp(code) == [tag |-> "err", val |-> code]

\* the values handlers answer and the application broadcasts
Values == {"v"}

----------------------------------------------------------------------------
(* Initial state: RawServer::new, Server::new, the start of background_task *)

Init ==
    /\ closed = {}
    /\ resumable \in ResumableChoices
    /\ ninj = 0
    /\ wire = [c \in Conns |-> <<>>]
    /\ batches = EmptyMap
    /\ subscriptions = EmptyMap
    /\ num_subscriptions = EmptyMap
    /\ inflight = NoInflight
    /\ clock = 0
    /\ emitted = EmptyMap
    /\ registered_names = {}
    /\ next_uid = 0
    /\ from_front = <<>>
    /\ lastret = [op |-> "none", a |-> NoParam, b |-> NoParam, ret |-> "none",
                  name |-> NoParam, n |-> 0]
    /\ callers = [h \in Clones |-> Idle]
    /\ hqueue = EmptyMap
    /\ parked = {}
    /\ nnotif = 0
    /\ registered_notifications = EmptyMap
    /\ registered_methods = {}
    /\ subscribe_methods = EmptyMap
    /\ unsubscribe_methods = EmptyMap
    /\ subscribed_clients = EmptyMap
    /\ active_subscriptions = EmptyMap
    /\ task = "running"

----------------------------------------------------------------------------
(* RawServer::next_event, one action per turn of its loop.                  *)
(* In background_task the call is one arm of a select whose other arm, the  *)
(* control queue, is polled first: next_event makes progress only while the *)
(* control queue is empty.                                                  *)

\* a faulty task: it does not wait for the handler
AwaitingNever == FALSE

\* line 427: the task is suspended in handler.send(params).await of a
\* notification that must not be lost, until the handler takes a notification
Awaiting ==
    \E name \in parked : /\ name \in DOMAIN registered_notifications
                          /\ ~registered_notifications[name]

Polling == task = "running" /\ from_front = <<>> /\ ~Awaiting

\* a faulty test: every reply is written with send
KeepsOpenAlways(num, c) == TRUE

\* a faulty test: one subscription does not keep the connection
KeepsOpenSeveral(num, c) == c \in DOMAIN num /\ num[c] >= 2

\* line 177: the reply is written with send (true) or with finish (false)
KeepsOpen(num, c) == c \in DOMAIN num

\* ReadyToSend with a present connection: the transport write is started
\* (lines 174-179, 191); next_event is suspended in send / finish
ReadyToSendTake(s) ==
    /\ Polling /\ inflight = NoInflight
    /\ s \in DOMAIN batches /\ IsReady(batches[s])
    /\ batches[s].user_param # None
    /\ inflight' = [op |-> IF KeepsOpen(num_subscriptions, batches[s].user_param)
                           THEN "send" ELSE "finish",
                    conn |-> batches[s].user_param, no |-> batches[s].no,
                    body |-> ReplyOf(batches[s].elems), cause |-> batches[s].done_at]
    /\ batches' = Remove(batches, s)
    /\ emitted' = Emit(emitted, batches[s])
    /\ UNCHANGED <<transportvars, subscriptions, num_subscriptions, clock,
                   frontvars, appvars, bgvars>>

\* the transport write completes: lines 179-189 (SubscriptionsReady) or 191-193
ReadyToSendComplete ==
    /\ Polling /\ inflight # NoInflight
    /\ IF inflight.op = "send"
       THEN /\ wire' = Write(wire, inflight.conn,
                           SendCall("reply", inflight.no, inflight.body, NoParam,
                                    NoParam, inflight.cause, clock))
            /\ subscriptions' = ClearPending(subscriptions, inflight.conn)
       ELSE /\ wire' = Write(wire, inflight.conn,
                           FinishCall("reply", inflight.no, inflight.body,
                                      inflight.cause, clock))
            /\ UNCHANGED subscriptions
    /\ closed' = IF inflight.op = "send" THEN closed ELSE finish(closed, inflight.conn)
    /\ inflight' = NoInflight
    /\ UNCHANGED <<resumable, ninj, batches, num_subscriptions, histvars,
                   frontvars, appvars, bgvars>>

\* ReadyToSend whose connection tag is None: discarded (lines 195-199)
ReadyToSendDiscard(s) ==
    /\ Polling /\ inflight = NoInflight
    /\ s \in DOMAIN batches /\ IsReady(batches[s])
    /\ batches[s].user_param = None
    /\ batches' = Remove(batches, s)
    /\ emitted' = Emit(emitted, batches[s])
    /\ UNCHANGED <<transportvars, subscriptions, num_subscriptions, inflight, clock,
                   frontvars, appvars, bgvars>>

\* the transport delivers Request { id: c, request: msg }: inject (line 203)
TransportRequest(c, msg) ==
    /\ Polling /\ inflight = NoInflight
    /\ Drained(batches)
    /\ c \notin closed
    /\ ninj < MaxInject
    /\ ninj' = ninj + 1
    /\ batches' = inject(batches, WithIds(msg, ninj + 1), c, ninj + 1, Len(wire[c]))
    /\ UNCHANGED <<closed, resumable, wire, subscriptions, num_subscriptions, inflight,
                   histvars, frontvars, appvars, bgvars>>

\* the transport delivers Closed(c) and c has no subscription (lines 204-216, 228)
TransportClosedQuiet(c) ==
    /\ Polling /\ inflight = NoInflight
    /\ Drained(batches)
    /\ c \notin closed
    /\ c \notin DOMAIN num_subscriptions
    /\ closed' = closed \cup {c}
    /\ batches' = NullTags(batches, c)
    /\ UNCHANGED <<resumable, ninj, wire, subscriptions, num_subscriptions, inflight,
                   histvars, frontvars, appvars, bgvars>>

\* the transport delivers Closed(c) and c has subscriptions: every trace of c
\* is removed and SubscriptionsClosed is returned (lines 204-227)
NextEventClosed(c) ==
    /\ Polling /\ inflight = NoInflight
    /\ Drained(batches)
    /\ c \notin closed
    /\ c \in DOMAIN num_subscriptions
    /\ closed' = closed \cup {c}
    /\ batches' = NullTags(batches, c)
    /\ num_subscriptions' = DropCount(num_subscriptions, c)
    /\ subscriptions' = DropSubscriptions(subscriptions, c)

\* the ids SubscriptionsClosed lists for Closed(c)
ClosedIds(c) == SubsOf(subscriptions, c)

\* the next element of slot s is produced (lines 168-172, 232)
NextEventElem(s, kind) ==
    /\ Polling /\ inflight = NoInflight
    /\ s \in DOMAIN batches
    /\ NewIdx(batches[s]) # 0
    /\ batches[s].elems[NewIdx(batches[s])].kind = kind

\* RawServerRequest::into_subscription succeeding on request rid of the batch
\* tracker b with sampled id new (lines 347-370)
IntoSubscriptionOk(b, rid, new) ==
    /\ IntoSubscriptionResult(b, rid) = "Ok"
    /\ new \in Vacant(subscriptions)
    /\ subscriptions' = InsertSubscription(subscriptions, new, b[rid.slot].user_param,
                                           b[rid.slot].elems[rid.idx].method,
                                           b[rid.slot].no)
    /\ num_subscriptions' = IncrementCount(num_subscriptions, b[rid.slot].user_param)
    /\ batches' = MarkSub(MarkApi(set_response(b, rid, OkResp(WireId(new)), clock), rid),
                          rid, "Ok")

\* RawServerRequest::into_subscription failing on request rid of the batch
\* tracker b (lines 338-345)
IntoSubscriptionErr(b, rid) ==
    /\ IntoSubscriptionResult(b, rid) # "Ok"
    /\ batches' = MarkSub(b, rid, IntoSubscriptionResult(b, rid))
    /\ UNCHANGED <<subscriptions, num_subscriptions>>

\* RawServerRequest::respond on request rid of the batch tracker b
Respond(b, rid, response) ==
    /\ batches' = MarkApi(respond(b, rid, response, clock), rid)

----------------------------------------------------------------------------
(* RawSpec: the RawServer API driven by an arbitrary user *)

RawNotification(s) ==
    /\ NextEventElem(s, "notif")
    /\ batches' = Surface(batches, s, NewIdx(batches[s]))
    /\ UNCHANGED <<transportvars, subscriptions, num_subscriptions, inflight, histvars,
                   frontvars, appvars, bgvars>>

RawRequest(s) ==
    /\ NextEventElem(s, "call")
    /\ batches' = Surface(batches, s, NewIdx(batches[s]))
    /\ UNCHANGED <<transportvars, subscriptions, num_subscriptions, inflight, histvars,
                   frontvars, appvars, bgvars>>

RawSubscriptionsClosed(c) ==
    /\ NextEventClosed(c)
    /\ UNCHANGED <<resumable, ninj, wire, inflight, histvars, frontvars, appvars, bgvars>>

\* request_by_id(rid) then respond(response)
RawRespond(rid, response) ==
    /\ inflight = NoInflight
    /\ request_by_id(batches, rid)
    /\ Respond(batches, rid, response)
    /\ UNCHANGED <<transportvars, subscriptions, num_subscriptions, inflight, histvars,
                   frontvars, appvars, bgvars>>

\* request_by_id(rid) then into_subscription(), returning Ok(new)
RawIntoSubscription(rid, new) ==
    /\ inflight = NoInflight
    /\ request_by_id(batches, rid)
    /\ IntoSubscriptionOk(batches, rid, new)
    /\ UNCHANGED <<transportvars, inflight, histvars, frontvars, appvars, bgvars>>

\* request_by_id(rid) then into_subscription(), returning Err: nothing is done
RawIntoSubscriptionErr(rid) ==
    /\ inflight = NoInflight
    /\ request_by_id(batches, rid)
    /\ IntoSubscriptionErr(batches, rid)
    /\ UNCHANGED <<transportvars, inflight, histvars, frontvars, appvars, bgvars>>

\* subscription_by_id(id) then push(value)
RawPush(id, value) ==
    /\ inflight = NoInflight
    /\ id \in DOMAIN subscriptions
    /\ nnotif < MaxPush
    /\ nnotif' = nnotif + 1
    /\ clock' = clock + 1
    /\ wire' = push(wire, subscriptions, id, value, clock + 1)
    /\ UNCHANGED <<closed, resumable, ninj, rawvars, emitted, frontvars, hqueue, parked,
                   bgvars>>

\* a faulty close: the connection of a pending subscription is finished too
FinishesOnCloseIgnoresPending(num, state) == state.raw_id \notin DOMAIN num

\* line 481: is_last_sub && !subscription_state.pending, with num the counts
\* after the decrement
FinishesOnClose(num, state) == state.raw_id \notin DOMAIN num /\ ~state.pending

\* subscription_by_id(id) then close() (lines 459-484)
RawClose(id) ==
    /\ inflight = NoInflight
    /\ id \in DOMAIN subscriptions
    /\ subscriptions' = Remove(subscriptions, id)
    /\ num_subscriptions' = DecrementCount(num_subscriptions, subscriptions[id].raw_id)
    /\ wire' = IF FinishesOnClose(num_subscriptions', subscriptions[id])
               THEN Write(wire, subscriptions[id].raw_id, FinishCall("close", 0, <<>>, clock, clock))
               ELSE wire
    /\ UNCHANGED <<closed, resumable, ninj, batches, inflight, histvars, frontvars,
                   appvars, bgvars>>

RawNext ==
    \/ \E s \in Slots : ReadyToSendTake(s)
    \/ ReadyToSendComplete
    \/ \E s \in Slots : ReadyToSendDiscard(s)
    \/ \E c \in Conns, msg \in RawMessages : TransportRequest(c, msg)
    \/ \E c \in Conns : TransportClosedQuiet(c)
    \/ \E c \in Conns : RawSubscriptionsClosed(c)
    \/ \E s \in Slots : RawNotification(s)
    \/ \E s \in Slots : RawRequest(s)
    \/ \E s \in Slots, i \in 1..2, v \in Values : RawRespond(Rid(s, i), OkResp(v))
    \/ \E s \in Slots, i \in 1..2, new \in SubIds : RawIntoSubscription(Rid(s, i), new)
    \/ \E s \in Slots, i \in 1..2 : RawIntoSubscriptionErr(Rid(s, i))
    \/ \E id \in SubIds, v \in Values : RawPush(id, v)
    \/ \E id \in SubIds : RawClose(id)

RawSpec == Init /\ [][RawNext]_vars

\* the messages of CloseSpec: calls only
CloseMessages == {<<Call("m", NoParam)>>, <<Call("m", NoParam), Call("m", NoParam)>>}

\* CloseSpec: RawSpec for a user that subscribes, answers and closes, and
\* pushes nothing
CloseNext ==
    \/ \E s \in Slots : ReadyToSendTake(s)
    \/ ReadyToSendComplete
    \/ \E s \in Slots : ReadyToSendDiscard(s)
    \/ \E c \in Conns, msg \in CloseMessages : TransportRequest(c, msg)
    \/ \E c \in Conns : TransportClosedQuiet(c)
    \/ \E c \in Conns : RawSubscriptionsClosed(c)
    \/ \E s \in Slots : RawRequest(s)
    \/ \E s \in Slots, i \in 1..2, v \in Values : RawRespond(Rid(s, i), OkResp(v))
    \/ \E s \in Slots, i \in 1..2, new \in SubIds : RawIntoSubscription(Rid(s, i), new)
    \/ \E id \in SubIds : RawClose(id)

\* the user keeps calling next_event and polls the future it returns to
\* completion: a batch that is ready is taken and its write completes
CloseSpec ==
    /\ Init /\ [][CloseNext]_vars
    /\ WF_vars(\E s \in Slots : ReadyToSendTake(s))
    /\ WF_vars(ReadyToSendComplete)

----------------------------------------------------------------------------
(* The front-end handle: Server (server.rs lines 144-271) *)

NoRid == Rid(0, 0)

\* a FrontToBack message
Msg(type, name, unsub, uid, rid, answer, value, allow_losses) ==
    [type |-> type, name |-> name, unsub |-> unsub, uid |-> uid, rid |-> rid,
     answer |-> answer, value |-> value, allow_losses |-> allow_losses]

\* what a front-end call returned; n alternates from one call to the next
Ret(op, a, b, ret, name) ==
    [op |-> op, a |-> a, b |-> b, ret |-> ret, name |-> name, n |-> 1 - lastret.n]

\* the mark that ends the control queue once every sender is dropped
Dropped == Msg("Dropped", NoParam, NoParam, 0, NoRid, NoResp, NoParam, FALSE)

\* a sender of the control queue is alive
Open(q) == IF q = <<>> THEN TRUE ELSE q[Len(q)] # Dropped

\* to_back.unbounded_send(msg) fails once the background task is gone
SendResult == IF task = "running" THEN "Ok" ELSE "Internal"

ToBack(q, msg) == IF task = "running" THEN Append(q, msg) ELSE q

\* a faulty register_subscription: the subscribe name is not taken back
SubscriptionNamesNoRollback(names, s, u) ==
    IF s \in names THEN names
    ELSE IF u \in names \cup {s} THEN names \cup {s}
    ELSE names \cup {s, u}

\* a faulty register_subscription: the unsubscribe name is looked up in the set
\* as it was before the subscribe name went in
SubscriptionClashStaleSet(names, s, u) ==
    IF s \in names THEN s
    ELSE IF u \in names THEN u
    ELSE NoParam

\* register_subscription, lines 239-252: the name set after the call
SubscriptionNames(names, s, u) ==
    IF s \in names THEN names
    ELSE IF u \in names \cup {s} THEN (names \cup {s}) \ {s}
    ELSE names \cup {s, u}

\* register_subscription, lines 245-251: the name of the error, NoParam if none
SubscriptionClash(names, s, u) ==
    IF s \in names THEN s
    ELSE IF u \in names \cup {s} THEN u
    ELSE NoParam

\* Server::register_method (lines 213-226)
RegisterMethod(name) ==
    /\ Open(from_front)
    /\ IF name \in registered_names
       THEN /\ lastret' = Ret("register_method", name, NoParam,
                              "MethodAlreadyRegistered", name)
            /\ UNCHANGED <<registered_names, from_front, hqueue>>
       ELSE /\ registered_names' = registered_names \cup {name}
            /\ hqueue' = Put(hqueue, name, <<>>)
            /\ from_front' = ToBack(from_front,
                   Msg("RegisterMethod", name, NoParam, 0, NoRid, NoResp, NoParam, FALSE))
            /\ lastret' = Ret("register_method", name, NoParam, SendResult, NoParam)
    /\ UNCHANGED <<transportvars, rawvars, histvars, next_uid, callers, parked, nnotif,
                   bgvars>>

\* Server::register_notification (lines 184-201)
RegisterNotification(name, allow_losses) ==
    /\ Open(from_front)
    /\ IF name \in registered_names
       THEN /\ lastret' = Ret("register_notification", name, NoParam,
                              "MethodAlreadyRegistered", name)
            /\ UNCHANGED <<registered_names, from_front, hqueue>>
       ELSE /\ registered_names' = registered_names \cup {name}
            /\ hqueue' = Put(hqueue, name, <<>>)
            /\ from_front' = ToBack(from_front,
                   Msg("RegisterNotifications", name, NoParam, 0, NoRid, NoResp, NoParam,
                       allow_losses))
            /\ lastret' = Ret("register_notification", name, NoParam, SendResult, NoParam)
    /\ UNCHANGED <<transportvars, rawvars, histvars, next_uid, callers, parked, nnotif,
                   bgvars>>

\* Server::register_subscription (lines 234-270)
RegisterSubscription(s, u) ==
    /\ Open(from_front)
    /\ registered_names' = SubscriptionNames(registered_names, s, u)
    /\ IF SubscriptionClash(registered_names, s, u) # NoParam
       THEN /\ lastret' = Ret("register_subscription", s, u, "MethodAlreadyRegistered",
                              SubscriptionClash(registered_names, s, u))
            /\ UNCHANGED <<from_front, next_uid>>
       ELSE /\ next_uid' = next_uid + 1
            /\ from_front' = ToBack(from_front,
                   Msg("RegisterSubscription", s, u, next_uid, NoRid, NoResp, NoParam, FALSE))
            /\ lastret' = Ret("register_subscription", s, u, SendResult, NoParam)
    /\ UNCHANGED <<transportvars, rawvars, histvars, callers, appvars, bgvars>>

----------------------------------------------------------------------------
(* The registration calls of concurrent clones of Server, one action per    *)
(* step another thread can interleave with. registered_methods is behind a  *)
(* mutex: register_method and register_notification hold it for one insert, *)
(* register_subscription holds one guard from line 240 to line 252.         *)

\* a faulty mutex: a thread does not wait for the holder
MayLockAlways(cs, h) == TRUE

\* the thread of clone h can take the mutex: no other thread holds it
MayLock(cs, h) == \A o \in Clones \ {h} : cs[o].pc \notin {"first", "second"}

\* clone h returns from its call
Returned(c, ret, name) == [c EXCEPT !.pc = "idle", !.ret = ret, !.name = name]

\* register_method, line 214, and register_notification, line 189:
\* registered_methods.lock().insert(name)
CloneInsert(h, op, name, al) ==
    /\ Open(from_front)
    /\ callers[h].pc = "idle"
    /\ MayLock(callers, h)
    /\ LET c == [Idle EXCEPT !.op = op, !.a = name, !.al = al]
       IN IF name \in registered_names
          THEN /\ callers' = [callers EXCEPT
                                 ![h] = Returned(c, "MethodAlreadyRegistered", name)]
               /\ UNCHANGED registered_names
          ELSE /\ callers' = [callers EXCEPT ![h] = [c EXCEPT !.pc = "send"]]
               /\ registered_names' = registered_names \cup {name}
    /\ UNCHANGED <<transportvars, rawvars, histvars, next_uid, from_front, lastret,
                   appvars, bgvars>>

\* register_subscription, line 240: the guard is taken
CloneLock(h, s, u) ==
    /\ Open(from_front)
    /\ callers[h].pc = "idle"
    /\ MayLock(callers, h)
    /\ callers' = [callers EXCEPT ![h] = [Idle EXCEPT !.pc = "first",
                                            !.op = "register_subscription",
                                            !.a = s, !.b = u]]
    /\ UNCHANGED <<transportvars, rawvars, histvars, registered_names, next_uid,
                   from_front, lastret, appvars, bgvars>>

\* register_subscription, lines 245-247: the subscribe name is inserted
CloneFirst(h) ==
    /\ callers[h].pc = "first"
    /\ IF callers[h].a \in registered_names
       THEN /\ callers' = [callers EXCEPT ![h] = Returned(@, "MethodAlreadyRegistered",
                                                            callers[h].a)]
            /\ UNCHANGED registered_names
       ELSE /\ callers' = [callers EXCEPT ![h].pc = "second"]
            /\ registered_names' = registered_names \cup {callers[h].a}
    /\ UNCHANGED <<transportvars, rawvars, histvars, next_uid, from_front, lastret,
                   appvars, bgvars>>

\* register_subscription, lines 248-252: the unsubscribe name is inserted, or
\* the subscribe name is taken back; the guard is dropped
CloneSecond(h) ==
    /\ callers[h].pc = "second"
    /\ IF callers[h].b \in registered_names
       THEN /\ callers' = [callers EXCEPT ![h] = Returned(@, "MethodAlreadyRegistered",
                                                            callers[h].b)]
            /\ registered_names' = registered_names \ {callers[h].a}
       ELSE /\ callers' = [callers EXCEPT ![h].pc = "fetch"]
            /\ registered_names' = registered_names \cup {callers[h].b}
    /\ UNCHANGED <<transportvars, rawvars, histvars, next_uid, from_front, lastret,
                   appvars, bgvars>>

\* register_subscription, line 259: next_subscription_unique_id.fetch_add(1)
CloneFetch(h) ==
    /\ callers[h].pc = "fetch"
    /\ callers' = [callers EXCEPT ![h].pc = "send", ![h].uid = next_uid]
    /\ next_uid' = next_uid + 1
    /\ UNCHANGED <<transportvars, rawvars, histvars, registered_names, from_front,
                   lastret, appvars, bgvars>>

\* the message of the call running on a clone
CloneMsg(c) ==
    IF c.op = "register_method"
    THEN Msg("RegisterMethod", c.a, NoParam, 0, NoRid, NoResp, NoParam, FALSE)
    ELSE IF c.op = "register_notification"
    THEN Msg("RegisterNotifications", c.a, NoParam, 0, NoRid, NoResp, NoParam, c.al)
    ELSE Msg("RegisterSubscription", c.a, c.b, c.uid, NoRid, NoResp, NoParam, FALSE)

\* lines 193-200, 218-225, 261-269: the channel of the handler is made, the
\* message is sent to the background task and the call returns
CloneSend(h) ==
    /\ callers[h].pc = "send"
    /\ from_front' = ToBack(from_front, CloneMsg(callers[h]))
    /\ hqueue' = IF callers[h].op = "register_subscription" THEN hqueue
                 ELSE Put(hqueue, callers[h].a, <<>>)
    /\ callers' = [callers EXCEPT ![h] = Returned(@, SendResult, NoParam)]
    /\ UNCHANGED <<transportvars, rawvars, histvars, registered_names, next_uid,
                   lastret, parked, nnotif, bgvars>>

----------------------------------------------------------------------------
(* A handler channel: futures::channel::mpsc::channel(buffer) with its one   *)
(* Sender. A message is queued whenever the sender is not parked; the        *)
(* message that takes the queue beyond the buffer parks the sender, and the  *)
(* sender stays parked until the receiver takes a message. A send future     *)
(* completes once the message is queued and the sender is not parked.        *)

\* Sender::poll_ready is Ready: the message can be queued
Accepts(name) == name \notin parked

\* the queue after start_send
Queued(q, name, item) == [q EXCEPT ![name] = Append(@, item)]

\* start_send parks the sender: the queue is beyond the buffer
Parks(q, name) == Len(q[name]) + 1 > ChannelBuffer

\* handler.send(item).now_or_never() is Some(Ok(())): queued and flushed
SentNow(q, name) == Accepts(name) /\ ~Parks(q, name)

\* Receiver::next() wakes the parked sender
Unpark(pk, name) == pk \ {name}

----------------------------------------------------------------------------
(* The application: handlers and broadcasts *)

\* RegisteredNotification::next (lines 274-283): the handler of notification
\* name takes the next parameters from its queue
NotificationNext(name) ==
    /\ name \in DOMAIN hqueue
    /\ hqueue[name] # <<>>
    /\ hqueue' = [hqueue EXCEPT ![name] = Tail(@)]
    /\ parked' = Unpark(parked, name)
    /\ UNCHANGED <<transportvars, rawvars, histvars, frontvars, nnotif, bgvars>>

\* the application drops the Server and every handle that holds a sender of
\* the control queue: the queue ends after the messages it holds
DropSenders ==
    /\ Open(from_front)
    /\ from_front' = Append(from_front, Dropped)
    /\ UNCHANGED <<transportvars, rawvars, histvars, registered_names, next_uid, callers, lastret,
                   appvars, bgvars>>

\* RegisteredSubscription::send(value) on the handle with unique id uid
AppSend(uid, value) ==
    /\ task = "running" /\ Open(from_front)
    /\ uid < next_uid
    /\ nnotif < MaxNotif
    /\ nnotif' = nnotif + 1
    /\ from_front' = Append(from_front,
           Msg("SendOutNotif", NoParam, NoParam, uid, NoRid, NoResp, value, FALSE))
    /\ UNCHANGED <<transportvars, rawvars, histvars, registered_names, next_uid, callers, lastret,
                   hqueue, parked, bgvars>>

\* RegisteredMethod::next() then IncomingRequest::respond(Ok(value))
HandlerRespond(name, value) ==
    /\ task = "running" /\ Open(from_front)
    /\ name \in DOMAIN hqueue
    /\ hqueue[name] # <<>>
    /\ hqueue' = [hqueue EXCEPT ![name] = Tail(@)]
    /\ parked' = Unpark(parked, name)
    /\ from_front' = Append(from_front,
           Msg("AnswerRequest", NoParam, NoParam, 0, Head(hqueue[name]), OkResp(value),
               NoParam, FALSE))
    /\ UNCHANGED <<transportvars, rawvars, histvars, registered_names, next_uid, callers, lastret,
                   nnotif, bgvars>>

----------------------------------------------------------------------------
(* background_task (server.rs lines 324-498): one action per match arm.     *)
(* A control message is taken whenever one is queued; if next_event was     *)
(* suspended in a transport write, the select drops that call.              *)

CtlReady(type) ==
    /\ task = "running" /\ ~Awaiting
    /\ from_front # <<>>
    /\ Head(from_front).type = type

\* lines 407-413: the transport calls after pushing value on each client
RECURSIVE PushAll(_, _, _, _, _)
PushAll(w, subs, clients, value, cause) ==
    IF clients = <<>> THEN w
    ELSE PushAll(IF Head(clients) \in DOMAIN subs
                 THEN push(w, subs, Head(clients), value, cause) ELSE w,
                 subs, Tail(clients), value, cause)

\* lines 400, 408, 409: the debug assertions of SendOutNotif
SendOutNotifAsserts(uid) ==
    /\ uid \in DOMAIN subscribed_clients
    /\ \A i \in 1..Len(subscribed_clients[uid]) :
          /\ subscribed_clients[uid][i] \in DOMAIN active_subscriptions
          /\ active_subscriptions[subscribed_clients[uid][i]] = uid
          /\ subscribed_clients[uid][i] \in DOMAIN subscriptions

\* lines 384-393: the debug assertions of RegisterSubscription
RegisterSubscriptionAsserts(m) ==
    /\ m.name # m.unsub
    /\ {m.name, m.unsub} \cap (DOMAIN subscribe_methods) = {}
    /\ {m.name, m.unsub} \cap (DOMAIN unsubscribe_methods) = {}
    /\ {m.name, m.unsub} \cap registered_methods = {}
    /\ {m.name, m.unsub} \cap (DOMAIN registered_notifications) = {}
    /\ m.uid \notin DOMAIN subscribed_clients

\* lines 361-364
BgAnswerRequest ==
    /\ CtlReady("AnswerRequest")
    /\ from_front' = Tail(from_front)
    /\ inflight' = NoInflight
    /\ IF request_by_id(batches, Head(from_front).rid)
       THEN /\ Respond(batches, Head(from_front).rid, Head(from_front).answer)
            /\ UNCHANGED task
       ELSE /\ task' = "panicked"
            /\ UNCHANGED batches
    /\ UNCHANGED <<transportvars, subscriptions, num_subscriptions, histvars,
                   registered_names, next_uid, callers, lastret, appvars,
                   registered_notifications, registered_methods, subscribe_methods,
                   unsubscribe_methods, subscribed_clients, active_subscriptions>>

\* a faulty task: it goes on after the end of the control queue
BgTerminatedGoesOn ==
    /\ CtlReady("Dropped")
    /\ from_front' = Tail(from_front)
    /\ inflight' = NoInflight
    /\ UNCHANGED <<transportvars, batches, subscriptions, num_subscriptions, histvars,
                   registered_names, next_uid, callers, lastret, appvars, bgvars>>

\* lines 357-360: the control queue has ended, the task returns
BgTerminated ==
    /\ CtlReady("Dropped")
    /\ task' = "terminated"
    /\ inflight' = NoInflight
    /\ UNCHANGED <<transportvars, batches, subscriptions, num_subscriptions, histvars,
                   frontvars, appvars, registered_notifications, registered_methods,
                   subscribe_methods, unsubscribe_methods, subscribed_clients,
                   active_subscriptions>>

\* lines 365-368
BgRegisterNotifications ==
    /\ CtlReady("RegisterNotifications")
    /\ from_front' = Tail(from_front)
    /\ inflight' = NoInflight
    /\ registered_notifications' =
          Put(registered_notifications, Head(from_front).name, Head(from_front).allow_losses)
    /\ UNCHANGED <<transportvars, batches, subscriptions, num_subscriptions, histvars,
                   registered_names, next_uid, callers, lastret, appvars, registered_methods,
                   subscribe_methods, unsubscribe_methods, subscribed_clients,
                   active_subscriptions, task>>

\* lines 369-372
BgRegisterMethod ==
    /\ CtlReady("RegisterMethod")
    /\ from_front' = Tail(from_front)
    /\ inflight' = NoInflight
    /\ registered_methods' = registered_methods \cup {Head(from_front).name}
    /\ UNCHANGED <<transportvars, batches, subscriptions, num_subscriptions, histvars,
                   registered_names, next_uid, callers, lastret, appvars, registered_notifications,
                   subscribe_methods, unsubscribe_methods, subscribed_clients,
                   active_subscriptions, task>>

\* lines 373-397
BgRegisterSubscription ==
    /\ CtlReady("RegisterSubscription")
    /\ from_front' = Tail(from_front)
    /\ inflight' = NoInflight
    /\ subscribe_methods' = Put(subscribe_methods, Head(from_front).name, Head(from_front).uid)
    /\ unsubscribe_methods' =
          Put(unsubscribe_methods, Head(from_front).unsub, Head(from_front).uid)
    /\ subscribed_clients' = Put(subscribed_clients, Head(from_front).uid, <<>>)
    /\ UNCHANGED <<transportvars, batches, subscriptions, num_subscriptions, histvars,
                   registered_names, next_uid, callers, lastret, appvars, registered_notifications,
                   registered_methods, active_subscriptions, task>>

\* lines 398-417
BgSendOutNotif ==
    /\ CtlReady("SendOutNotif")
    /\ from_front' = Tail(from_front)
    /\ inflight' = NoInflight
    /\ clock' = clock + 1
    /\ wire' = IF Head(from_front).uid \in DOMAIN subscribed_clients
               THEN PushAll(wire, subscriptions, subscribed_clients[Head(from_front).uid],
                            Head(from_front).value, clock + 1)
               ELSE wire
    /\ UNCHANGED <<closed, resumable, ninj, batches, subscriptions, num_subscriptions,
                   emitted, registered_names, next_uid, callers, lastret, appvars, bgvars>>

\* lines 418-430: the parameters of the notification go to the queue of its
\* handler when the sender can queue them. A parked sender is one that drops
\* (allow_losses, now_or_never): the other kind is awaited until it is not
\* parked before the task goes on. Without a handler the notification is
\* dropped.
BgNotification(s) ==
    /\ NextEventElem(s, "notif")
    /\ LET method == batches[s].elems[NewIdx(batches[s])].method
           params == batches[s].elems[NewIdx(batches[s])].param
       IN IF method \in DOMAIN registered_notifications /\ Accepts(method)
          THEN /\ hqueue' = Queued(hqueue, method, params)
               /\ parked' = IF Parks(hqueue, method) THEN parked \cup {method}
                             ELSE parked
          ELSE UNCHANGED <<hqueue, parked>>
    /\ batches' = Surface(batches, s, NewIdx(batches[s]))
    /\ UNCHANGED <<transportvars, subscriptions, num_subscriptions, inflight, histvars,
                   frontvars, nnotif, bgvars>>

\* lines 431-440: a request for a registered method. The request is queued
\* whenever the sender is not parked; the send future is complete at once
\* (Some(Ok(()))) only if queueing did not park the sender, and otherwise the
\* request is answered with the server error.
BgRequestMethod(s) ==
    /\ NextEventElem(s, "call")
    /\ LET i == NewIdx(batches[s])
           b1 == Surface(batches, s, i)
           method == batches[s].elems[i].method
       IN /\ method \in registered_methods
          /\ IF Accepts(method)
             THEN /\ hqueue' = Queued(hqueue, method, Rid(s, i))
                  /\ parked' = IF Parks(hqueue, method) THEN parked \cup {method}
                                ELSE parked
             ELSE UNCHANGED <<hqueue, parked>>
          /\ LET b2 == IF Accepts(method) THEN MarkHand(b1, Rid(s, i)) ELSE b1
             IN IF SentNow(hqueue, method)
                THEN batches' = b2
                ELSE Respond(b2, Rid(s, i), ErrResp("ServerError(0)"))
    /\ UNCHANGED <<transportvars, subscriptions, num_subscriptions, inflight, histvars,
                   frontvars, nnotif, bgvars>>

\* lines 446, 450: the debug assertions on the id of a new subscription
SubscribeAsserts(uid, new) ==
    /\ uid \in DOMAIN subscribed_clients
    /\ new \notin Range(subscribed_clients[uid])
    /\ new \notin DOMAIN active_subscriptions

\* lines 441-452: a request for a subscribe method, into_subscription succeeds
BgRequestSubscribe(s, new) ==
    /\ NextEventElem(s, "call")
    /\ LET i == NewIdx(batches[s])
           b1 == Surface(batches, s, i)
           method == batches[s].elems[i].method
       IN /\ method \notin registered_methods
          /\ method \in DOMAIN subscribe_methods
          /\ IntoSubscriptionOk(b1, Rid(s, i), new)
          /\ subscribed_clients' =
                IF subscribe_methods[method] \in DOMAIN subscribed_clients
                THEN [subscribed_clients EXCEPT ![subscribe_methods[method]] = Append(@, new)]
                ELSE subscribed_clients
          /\ active_subscriptions' = Put(active_subscriptions, new, subscribe_methods[method])
    /\ UNCHANGED <<transportvars, inflight, histvars, frontvars, appvars,
                   registered_notifications, registered_methods, subscribe_methods,
                   unsubscribe_methods, task>>

\* lines 441-452: a request for a subscribe method, into_subscription fails
BgRequestSubscribeErr(s) ==
    /\ NextEventElem(s, "call")
    /\ LET i == NewIdx(batches[s])
           b1 == Surface(batches, s, i)
           method == batches[s].elems[i].method
       IN /\ method \notin registered_methods
          /\ method \in DOMAIN subscribe_methods
          /\ IntoSubscriptionErr(b1, Rid(s, i))
    /\ UNCHANGED <<transportvars, inflight, histvars, frontvars, appvars, bgvars>>

\* lines 462-464: the subscriber list after the unsubscribe request
UnsubscribeClients(clients, sub_id) ==
    IF Position(clients, sub_id) # 0 THEN SeqRemove(clients, Position(clients, sub_id))
    ELSE clients

\* a faulty unsubscribe: the entry of the inverse map is kept
UnsubscribeActiveKept(active, sub_id) == active

\* lines 466-468: the inverse map after the unsubscribe request
UnsubscribeActive(active, sub_id) == Remove(active, sub_id)

\* line 467: the debug assertion of the unsubscribe request
UnsubscribeAsserts(uid, sub_id) ==
    /\ uid \in DOMAIN subscribed_clients
    /\ sub_id \in DOMAIN active_subscriptions => active_subscriptions[sub_id] = uid

\* lines 453-472: a request for an unsubscribe method
BgRequestUnsubscribe(s) ==
    /\ NextEventElem(s, "call")
    /\ LET i == NewIdx(batches[s])
           method == batches[s].elems[i].method
           sub_id == ParsedIds[batches[s].elems[i].param]
           uid == unsubscribe_methods[method]
       IN /\ method \notin registered_methods
          /\ method \notin DOMAIN subscribe_methods
          /\ method \in DOMAIN unsubscribe_methods
          /\ batches' = Surface(batches, s, i)
          /\ IF sub_id # BadParam /\ uid \in DOMAIN subscribed_clients
             THEN /\ subscribed_clients' =
                        [subscribed_clients EXCEPT ![uid] = UnsubscribeClients(@, sub_id)]
                  /\ active_subscriptions' = UnsubscribeActive(active_subscriptions, sub_id)
             ELSE UNCHANGED <<subscribed_clients, active_subscriptions>>
    /\ UNCHANGED <<transportvars, subscriptions, num_subscriptions, inflight, histvars,
                   frontvars, appvars, registered_notifications, registered_methods,
                   subscribe_methods, unsubscribe_methods, task>>

\* lines 473-477: a request for a method that is not registered
BgRequestUnknown(s) ==
    /\ NextEventElem(s, "call")
    /\ LET i == NewIdx(batches[s])
           method == batches[s].elems[i].method
       IN /\ method \notin registered_methods
          /\ method \notin DOMAIN subscribe_methods
          /\ method \notin DOMAIN unsubscribe_methods
          /\ Respond(Surface(batches, s, i), Rid(s, i), ErrResp("MethodNotFound"))
    /\ UNCHANGED <<transportvars, subscriptions, num_subscriptions, inflight, histvars,
                   frontvars, appvars, bgvars>>

\* line 487: the inverse map after SubscriptionsClosed(ids)
ClosedActive(active, ids) == [id \in (DOMAIN active) \ ids |-> active[id]]

\* lines 487-492: the subscriber lists after SubscriptionsClosed(ids)
RECURSIVE RetainAll(_, _)
RetainAll(clients, ids) ==
    IF ids = {} THEN clients
    ELSE LET id == CHOOSE x \in ids : TRUE
         IN RetainAll(Retain(clients, id), ids \ {id})

ClosedClients(sc, active, ids) ==
    [uid \in DOMAIN sc |->
        RetainAll(sc[uid], {id \in ids : id \in DOMAIN active /\ active[id] = uid})]

\* line 490: assert_eq!(clients.iter().filter(|c| **c == sub_id).count(), 1)
ClosedAsserts(ids) ==
    \A id \in ids :
        (id \in DOMAIN active_subscriptions
         /\ active_subscriptions[id] \in DOMAIN subscribed_clients)
        => Count(subscribed_clients[active_subscriptions[id]], id) = 1

\* lines 482-495: Closed(c) of a connection with subscriptions, then the
\* handling of SubscriptionsClosed
BgSubscriptionsClosed(c) ==
    /\ NextEventClosed(c)
    /\ IF ClosedAsserts(ClosedIds(c))
       THEN /\ active_subscriptions' = ClosedActive(active_subscriptions, ClosedIds(c))
            /\ subscribed_clients' =
                  ClosedClients(subscribed_clients, active_subscriptions, ClosedIds(c))
            /\ UNCHANGED task
       ELSE /\ task' = "panicked"
            /\ UNCHANGED <<subscribed_clients, active_subscriptions>>
    /\ UNCHANGED <<resumable, ninj, wire, inflight, histvars, frontvars, appvars,
                   registered_notifications, registered_methods, subscribe_methods,
                   unsubscribe_methods>>

\* a debug assertion of the arm about to run fails and the build checks it
\* (debug_assert!, debug_assert_eq!): the task panics
DebugAssertFails ==
    \/ /\ CtlReady("SendOutNotif")
       /\ ~SendOutNotifAsserts(Head(from_front).uid)
    \/ /\ CtlReady("RegisterSubscription")
       /\ ~RegisterSubscriptionAsserts(Head(from_front))
    \/ \E s \in DOMAIN batches :
          /\ NextEventElem(s, "call")
          /\ LET e == batches[s].elems[NewIdx(batches[s])]
             IN /\ e.method \notin registered_methods
                /\ \/ /\ e.method \in DOMAIN subscribe_methods
                      /\ IntoSubscriptionResult(batches, Rid(s, NewIdx(batches[s]))) = "Ok"
                      /\ \E new \in Vacant(subscriptions) :
                            ~SubscribeAsserts(subscribe_methods[e.method], new)
                   \/ /\ e.method \notin DOMAIN subscribe_methods
                      /\ e.method \in DOMAIN unsubscribe_methods
                      /\ ParsedIds[e.param] # BadParam
                      /\ ~UnsubscribeAsserts(unsubscribe_methods[e.method],
                                             ParsedIds[e.param])

BgDebugPanic ==
    /\ DebugAssertFails
    /\ task' = "panicked"
    /\ UNCHANGED <<transportvars, rawvars, histvars, frontvars, appvars,
                   registered_notifications, registered_methods, subscribe_methods,
                   unsubscribe_methods, subscribed_clients, active_subscriptions>>

----------------------------------------------------------------------------
(* Spec: the server with the application's set-up calls made in order *)

Setup == <<[op |-> "method", a |-> "m", b |-> NoParam],
           [op |-> "subscription", a |-> "sub0", b |-> "unsub0"],
           [op |-> "subscription", a |-> "sub1", b |-> "unsub1"]>>

SetupCall(k) ==
    /\ \A j \in 1..(k - 1) : Setup[j].a \in registered_names
    /\ Setup[k].a \notin registered_names
    /\ IF Setup[k].op = "method" THEN RegisterMethod(Setup[k].a)
       ELSE RegisterSubscription(Setup[k].a, Setup[k].b)

\* the application has made its set-up calls
SetupDone == \A k \in 1..Len(Setup) : Setup[k].a \in registered_names

\* clients connect once the application is set up
Deliver(c, msg) == SetupDone /\ TransportRequest(c, msg)

\* the application broadcasts on its first subscription
Broadcast(v) == SetupDone /\ AppSend(0, v)

Next ==
    \/ \E k \in 1..Len(Setup) : SetupCall(k)
    \/ \E v \in Values : Broadcast(v)
    \/ \E v \in Values : HandlerRespond("m", v)
    \/ BgAnswerRequest
    \/ BgRegisterMethod
    \/ BgRegisterSubscription
    \/ BgSendOutNotif
    \/ BgDebugPanic
    \/ \E s \in Slots : ReadyToSendTake(s)
    \/ ReadyToSendComplete
    \/ \E s \in Slots : ReadyToSendDiscard(s)
    \/ \E c \in Conns, msg \in Messages : Deliver(c, msg)
    \/ \E c \in Conns : TransportClosedQuiet(c)
    \/ \E c \in Conns : BgSubscriptionsClosed(c)
    \/ \E s \in Slots : BgNotification(s)
    \/ \E s \in Slots : BgRequestMethod(s)
    \/ \E s \in Slots, new \in SubIds : BgRequestSubscribe(s, new)
    \/ \E s \in Slots : BgRequestSubscribeErr(s)
    \/ \E s \in Slots : BgRequestUnsubscribe(s)
    \/ \E s \in Slots : BgRequestUnknown(s)

Spec == Init /\ [][Next]_vars

\* the steps of background_task that need nothing from a client
BgStep ==
    \/ BgAnswerRequest
    \/ BgRegisterMethod
    \/ BgRegisterSubscription
    \/ BgSendOutNotif
    \/ \E s \in Slots : ReadyToSendTake(s)
    \/ ReadyToSendComplete
    \/ \E s \in Slots : ReadyToSendDiscard(s)
    \/ \E s \in Slots : BgNotification(s)
    \/ \E s \in Slots : BgRequestMethod(s)
    \/ \E s \in Slots, new \in SubIds : BgRequestSubscribe(s, new)
    \/ \E s \in Slots : BgRequestSubscribeErr(s)
    \/ \E s \in Slots : BgRequestUnsubscribe(s)
    \/ \E s \in Slots : BgRequestUnknown(s)

\* the spawned background task runs whenever it can take a step, and the
\* handler of method m answers every request it is given
LiveSpec ==
    /\ Spec
    /\ WF_vars(BgStep)
    /\ WF_vars(\E v \in Values : HandlerRespond("m", v))

----------------------------------------------------------------------------
(* RegSpec: registration calls with arbitrary names, made through any clone *)
(* of the handle, and the background task taking the messages               *)

RegNames == {"a", "b", "c"}

RegNext ==
    \/ \E name \in RegNames : RegisterMethod(name)
    \/ \E name \in RegNames, al \in BOOLEAN : RegisterNotification(name, al)
    \/ \E s \in RegNames, u \in RegNames : RegisterSubscription(s, u)
    \/ BgRegisterMethod
    \/ BgRegisterNotifications
    \/ BgRegisterSubscription

RegSpec == Init /\ [][RegNext]_vars

----------------------------------------------------------------------------
(* CloneSpec: two threads register the names of CloneNames through their     *)
(* clones of Server while the background task takes the registrations       *)

CloneNames == {"a", "b"}

CloneNext ==
    \/ \E h \in Clones, name \in CloneNames :
          CloneInsert(h, "register_method", name, FALSE)
    \/ \E h \in Clones, name \in CloneNames, al \in BOOLEAN :
          CloneInsert(h, "register_notification", name, al)
    \/ \E h \in Clones, s \in CloneNames, u \in CloneNames : CloneLock(h, s, u)
    \/ \E h \in Clones : CloneFirst(h)
    \/ \E h \in Clones : CloneSecond(h)
    \/ \E h \in Clones : CloneFetch(h)
    \/ \E h \in Clones : CloneSend(h)
    \/ BgRegisterMethod
    \/ BgRegisterNotifications
    \/ BgRegisterSubscription

CloneSpec == Init /\ [][CloneNext]_vars

----------------------------------------------------------------------------
(* NotifSpec: an application with two notification handlers, one that must  *)
(* not lose notifications and one that may, which can drop its handles      *)

NotifSetup == <<[a |-> "n", allow_losses |-> FALSE], [a |-> "l", allow_losses |-> TRUE]>>

NotifSetupCall(k) ==
    /\ \A j \in 1..(k - 1) : NotifSetup[j].a \in registered_names
    /\ NotifSetup[k].a \notin registered_names
    /\ RegisterNotification(NotifSetup[k].a, NotifSetup[k].allow_losses)

NotifSetupDone == \A k \in 1..Len(NotifSetup) : NotifSetup[k].a \in registered_names

NotifP(m, p) == [kind |-> "notif", method |-> m, param |-> p]

\* the messages of notifications the transport delivers in NotifSpec
NotifMessages == {<<NotifP("n", "p")>>, <<NotifP("n", "p"), NotifP("n", "q")>>,
                  <<NotifP("l", "p"), NotifP("l", "q")>>,
                  <<NotifP("l", "q"), NotifP("n", "q")>>}

NotifDeliver(c, msg) == NotifSetupDone /\ TransportRequest(c, msg)

NotifNext ==
    \/ \E k \in 1..Len(NotifSetup) : NotifSetupCall(k)
    \/ DropSenders
    \/ \E name \in {"n", "l"} : NotificationNext(name)
    \/ BgRegisterNotifications
    \/ BgTerminated
    \/ \E c \in Conns, msg \in NotifMessages : NotifDeliver(c, msg)
    \/ \E c \in Conns : TransportClosedQuiet(c)
    \/ \E s \in Slots : BgNotification(s)

NotifSpec == Init /\ [][NotifNext]_vars

\* NotifSpec with a task that is scheduled whenever it can take a step and
\* handlers that keep taking what is in their queues
NotifFairSpec ==
    /\ NotifSpec
    /\ WF_vars(BgRegisterNotifications)
    /\ WF_vars(BgTerminated)
    /\ WF_vars(\E name \in {"n", "l"} : NotificationNext(name))

----------------------------------------------------------------------------
(* Base58Spec: from_wire_message applied to the encodings of ids and to      *)
(* arbitrary JSON values; lastret holds the argument and the result          *)

\* the bytes ids are made of: the ends of the range and the neighbours of
\* the base
ByteChoices == {0, 1, 57, 58, 255}

Ids58 == [1..IdLen -> ByteChoices]

\* the characters of the strings, as positions in the alphabet: 58 is a
\* character that is not in it
CharChoices == {0, 1, 57, 58}

WireStrings == UNION {[1..k -> CharChoices] : k \in 0..MaxString}

JsonValues == {JsonString(s) : s \in WireStrings} \cup {JsonOther}

\* from_wire_message applied to the JSON string of bs58::encode(id)
Base58RoundTrip(id) ==
    /\ lastret' = Ret("round_trip", id, bs58_encode(id),
                      from_wire_message(JsonString(bs58_encode(id))), NoParam)
    /\ UNCHANGED <<transportvars, rawvars, histvars, registered_names, next_uid, callers,
                   from_front, appvars, bgvars>>

\* from_wire_message applied to a JSON value
Base58FromWire(params) ==
    /\ lastret' = Ret("from_wire_message", params, NoParam, from_wire_message(params),
                      NoParam)
    /\ UNCHANGED <<transportvars, rawvars, histvars, registered_names, next_uid, callers,
                   from_front, appvars, bgvars>>

Base58Next ==
    \/ \E id \in Ids58 : Base58RoundTrip(id)
    \/ \E params \in JsonValues : Base58FromWire(params)

Base58Spec == Init /\ [][Base58Next]_vars

----------------------------------------------------------------------------
(* Properties *)

\* the positions in wire[c] of the notifications and of the replies
NotifsOf(c) == {j \in 1..Len(wire[c]) : wire[c][j].kind = "notif"}

RepliesOf(c) == {j \in 1..Len(wire[c]) : wire[c][j].kind = "reply"}

\* C1: a connection has an entry in num_subscriptions exactly when the registry
\* holds a subscription of it, and the entry is the number of these
\* subscriptions (so it is never zero); a property of RawSpec
C1_CountsMatchRegistry ==
    /\ DOMAIN num_subscriptions = {c \in Conns : SubsOf(subscriptions, c) # {}}
    /\ \A c \in DOMAIN num_subscriptions :
          num_subscriptions[c] = Cardinality(SubsOf(subscriptions, c))
    /\ \A id \in DOMAIN subscriptions : subscriptions[id].raw_id \in Conns

\* two requests of one batch were turned into subscriptions and one of the two
\* was closed again: the count of the connection is back to one
C1_Witness ==
    \E s \in DOMAIN batches :
        /\ Len(batches[s].elems) = 2
        /\ \A i \in 1..2 : batches[s].elems[i].sub = "Ok"
        /\ batches[s].user_param \in DOMAIN num_subscriptions
        /\ num_subscriptions[batches[s].user_param] = 1

\* C2: a notification of a subscription is written to its connection only
\* after the reply of the batch that holds its subscribe request
C2_PushAfterSubscribeReply ==
    \A c \in Conns : \A j \in NotifsOf(c) :
        \E i \in RepliesOf(c) : i < j /\ wire[c][i].no = wire[c][j].no

\* C3: a batch gets at most one ReadyToSend, produced when every request of
\* it has been handed out once and answered through respond or
\* into_subscription, and none while it is still tracked
C3_ReadyToSendOnce ==
    /\ \A no \in DOMAIN emitted : emitted[no].n = 1 /\ emitted[no].ok
    /\ \A s \in DOMAIN batches :
          /\ batches[s].no \notin DOMAIN emitted
          /\ \A i \in 1..Len(batches[s].elems) :
                /\ batches[s].elems[i].surf <= 1
                /\ batches[s].elems[i].kind = "call" =>
                      /\ batches[s].elems[i].st = "new" <=> batches[s].elems[i].surf = 0
                      /\ batches[s].elems[i].st = "answered" => batches[s].elems[i].api

\* the single ReadyToSend of a batch of two requests has been produced
C3_Witness ==
    \E no \in DOMAIN emitted :
        emitted[no].size = 2 /\ emitted[no].n = 1 /\ emitted[no].ok

\* C4: once Closed(c) has been taken, no step calls send or finish with c
C4_NoCallAfterClosed ==
    [][\A c \in closed : wire'[c] = wire[c]]_vars

\* the reply of a batch became ready after its connection had closed and was
\* discarded, and a value was broadcast
C4_Witness ==
    /\ clock >= 1
    /\ \E no \in DOMAIN emitted : emitted[no].tag = None

\* a front-end call returns in this step
Called == lastret'.n # lastret.n

Rejected(r, name) == r.ret = "MethodAlreadyRegistered" /\ r.name = name

\* C5: a registration call with a name that is already in the set returns
\* MethodAlreadyRegistered with that name and leaves the set as it was; when
\* only the unsubscribe name of register_subscription(S, U) is taken, S is not
\* in the set afterwards, and a registration with a free name is not rejected
\* and puts the name in the set; a property of RegSpec
C5_DuplicateNameRejected ==
    [][Called =>
        /\ (lastret'.op \in {"register_method", "register_notification"}
            /\ lastret'.a \in registered_names)
           => (Rejected(lastret', lastret'.a) /\ registered_names' = registered_names)
        /\ (lastret'.op = "register_subscription" /\ lastret'.a \in registered_names)
           => (Rejected(lastret', lastret'.a) /\ registered_names' = registered_names)
        /\ (lastret'.op = "register_subscription" /\ lastret'.a \notin registered_names
            /\ lastret'.b \in registered_names)
           => (/\ Rejected(lastret', lastret'.b)
               /\ registered_names' = registered_names
               /\ lastret'.a \notin registered_names')
        /\ (lastret'.op \in {"register_method", "register_notification"}
            /\ lastret'.a \notin registered_names)
           => (lastret'.ret # "MethodAlreadyRegistered" /\ lastret'.a \in registered_names')
      ]_vars

\* register_subscription(S, U) was rejected for U alone and S is still free
C5_Witness ==
    /\ lastret.op = "register_subscription"
    /\ lastret.a # lastret.b
    /\ Rejected(lastret, lastret.b)
    /\ lastret.a \notin registered_names
    /\ lastret.b \in registered_names

\* C6: register_subscription with the same name for subscribe and unsubscribe
\* returns MethodAlreadyRegistered, sends no message to the background task
\* and leaves the set of names as it was; a property of RegSpec
C6_SameNameRejected ==
    [][(Called /\ lastret'.op = "register_subscription" /\ lastret'.a = lastret'.b) =>
        /\ Rejected(lastret', lastret'.a)
        /\ registered_names' = registered_names
        /\ from_front' = from_front
        /\ next_uid' = next_uid
      ]_vars

\* register_subscription(S, S) with a name nobody had registered was rejected
C6_Witness ==
    /\ lastret.op = "register_subscription"
    /\ lastret.a = lastret.b
    /\ Rejected(lastret, lastret.a)
    /\ lastret.a \notin registered_names

\* the place of a transport call in the order in which the background task
\* processed the operations: the k-th broadcast is 2k, a reply whose last
\* response was set after d broadcasts is 2d + 1
Stamp(e) == IF e.kind = "notif" THEN 2 * e.cause ELSE 2 * e.cause + 1

\* C7: on one connection, replies and notifications are written in the order
\* in which the background task processed the operations that caused them
C7_WireOrder ==
    \A c \in Conns : \A i \in NotifsOf(c) \cup RepliesOf(c) :
        \A j \in NotifsOf(c) \cup RepliesOf(c) :
            i < j => Stamp(wire[c][i]) <= Stamp(wire[c][j])

\* C8: while the background task runs, active_subscriptions[s] = u exactly
\* when s is in subscribed_clients[u], where it occurs once
C8_SubscriberMapsInverse ==
    task = "running" =>
        /\ \A id \in DOMAIN active_subscriptions :
              /\ active_subscriptions[id] \in DOMAIN subscribed_clients
              /\ Count(subscribed_clients[active_subscriptions[id]], id) = 1
        /\ \A u \in DOMAIN subscribed_clients : \A id \in Range(subscribed_clients[u]) :
              /\ id \in DOMAIN active_subscriptions
              /\ active_subscriptions[id] = u

\* C9: into_subscription returns Closed exactly when the connection tag of the
\* batch is absent and NotSupported exactly when the tag is present and the
\* transport cannot resume the connection; when it returns one of the two, the
\* registry and the counts are as before, the request has no response and
\* nothing is written; a property of RawSpec
C9_IntoSubscriptionErrors ==
    [][\A s \in DOMAIN batches : \A i \in 1..Len(batches[s].elems) :
          (s \in DOMAIN batches' /\ batches'[s].elems[i].sub # batches[s].elems[i].sub) =>
             /\ batches'[s].elems[i].sub = "Closed" <=> batches[s].user_param = None
             /\ batches'[s].elems[i].sub = "NotSupported" <=>
                   (batches[s].user_param # None /\ batches[s].user_param \notin resumable)
             /\ batches'[s].elems[i].sub # "Ok" =>
                   /\ subscriptions' = subscriptions
                   /\ num_subscriptions' = num_subscriptions
                   /\ batches'[s].elems[i].resp = NoResp
                   /\ batches'[s].elems[i].st = "surfaced"
                   /\ ~batches'[s].elems[i].api
                   /\ wire' = wire
      ]_vars

\* into_subscription has returned Closed for one request and NotSupported for
\* another
C9_Witness ==
    /\ \E s \in DOMAIN batches : \E i \in 1..Len(batches[s].elems) :
          batches[s].elems[i].sub = "Closed" /\ batches[s].user_param = None
    /\ \E s \in DOMAIN batches : \E i \in 1..Len(batches[s].elems) :
          batches[s].elems[i].sub = "NotSupported" /\ batches[s].user_param \in Conns

\* C10, first sentence: a step that broadcasts a value writes one notification
\* for each subscriber that is not pending and nothing else, changes neither
\* the registry nor the batches, and no other step writes a notification
C10_PendingPushWritesNothing ==
    [][/\ \A c \in Conns :
             /\ Len(wire'[c]) >= Len(wire[c])
             /\ \A j \in (Len(wire[c]) + 1)..Len(wire'[c]) :
                   wire'[c][j].kind = "notif" =>
                      /\ clock' = clock + 1
                      /\ wire'[c][j].cause = clock'
                      /\ wire'[c][j].sub \in DOMAIN subscriptions
                      /\ ~subscriptions[wire'[c][j].sub].pending
       /\ clock' # clock => (subscriptions' = subscriptions /\ batches' = batches)
      ]_vars

\* C10: the client sees no notification of a value that was broadcast before
\* the reply to its subscribe request was sent
C10_OnlyValuesAfterReply ==
    \A c \in Conns : \A j \in NotifsOf(c) :
        \E i \in RepliesOf(c) :
            wire[c][i].no = wire[c][j].no /\ wire[c][i].at < wire[c][j].cause

\* C11: the step that takes Closed(c) of a connection with subscriptions leaves
\* the background task running with none of these subscriptions in a
\* subscriber list or in the inverse map, and writes nothing
C11_DisconnectRemovesSubscribers ==
    [][\A c \in closed' \ closed : \A id \in SubsOf(subscriptions, c) :
          /\ task' = "running"
          /\ id \notin DOMAIN active_subscriptions'
          /\ \A u \in DOMAIN subscribed_clients' : id \notin Range(subscribed_clients'[u])
          /\ wire' = wire
      ]_vars

\* the background task is about to take an AnswerRequest whose request id the
\* dispatcher does not know
StaleAnswer ==
    /\ CtlReady("AnswerRequest")
    /\ ~request_by_id(batches, Head(from_front).rid)

\* the background task takes the message at the head of the control queue
TakesMessage == task = "running" /\ from_front # <<>> /\ from_front' = Tail(from_front)

\* C12: taking an AnswerRequest for a request id the dispatcher does not know
\* changes nothing but the control queue: the background task keeps running,
\* no response is set and nothing is written
C12_StaleAnswerDropped ==
    [][(StaleAnswer /\ TakesMessage) =>
          /\ task' = "running"
          /\ batches' = batches
          /\ wire' = wire
          /\ UNCHANGED <<subscriptions, num_subscriptions, subscribed_clients,
                         active_subscriptions>>
      ]_vars

\* request i of slot s is handed out in this step and its method is registered
HandedToMethod(s, i) ==
    /\ s \in DOMAIN batches /\ i \in 1..Len(batches[s].elems)
    /\ batches[s].elems[i].kind = "call"
    /\ batches[s].elems[i].surf = 0
    /\ batches[s].elems[i].method \in registered_methods
    /\ s \in DOMAIN batches' /\ batches'[s].no = batches[s].no
    /\ batches'[s].elems[i].surf = 1

\* C13: a request for a registered method is either put in the queue of the
\* handler, and then has no response, or is answered with the server error,
\* and then is not in the queue; never both
C13_QueuedOrServerError ==
    [][\A s \in Slots : \A i \in 1..2 : HandedToMethod(s, i) =>
          LET m == batches[s].elems[i].method
          IN \/ /\ hqueue'[m] = Append(hqueue[m], Rid(s, i))
                /\ batches'[s].elems[i].resp = NoResp
             \/ /\ hqueue'[m] = hqueue[m]
                /\ batches'[s].elems[i].resp = ErrResp("ServerError(0)")
      ]_vars

\* the method is in none of the three maps of the background task
Unregistered(method) ==
    /\ method \notin registered_methods
    /\ method \notin DOMAIN subscribe_methods
    /\ method \notin DOMAIN unsubscribe_methods

\* request i of slot s is handed out in this step
HandedOut(s, i) ==
    /\ s \in DOMAIN batches /\ i \in 1..Len(batches[s].elems)
    /\ batches[s].elems[i].kind = "call"
    /\ batches[s].elems[i].surf = 0
    /\ s \in DOMAIN batches' /\ batches'[s].no = batches[s].no
    /\ batches'[s].elems[i].surf = 1

\* the replies written in this step on connection c
NewReplies(c) == {j \in (Len(wire[c]) + 1)..Len(wire'[c]) : wire'[c][j].kind = "reply"}

\* C14: a request whose method is in none of the three maps gets the response
\* MethodNotFound when it is handed out and is put in no handler queue; every
\* reply written carries, for each request of its batch, the id of that
\* request, and MethodNotFound for a request of an unregistered method
C14_UnknownMethodNotFound ==
    [][/\ \A s \in Slots : \A i \in 1..2 :
             (HandedOut(s, i) /\ Unregistered(batches[s].elems[i].method)) =>
                /\ batches'[s].elems[i].resp = ErrResp("MethodNotFound")
                /\ ~batches'[s].elems[i].hand
                /\ hqueue' = hqueue
       /\ \A c \in Conns : \A j \in NewReplies(c) :
             \A k \in 1..Len(wire'[c][j].body) :
                LET o == wire'[c][j].body[k]
                IN /\ o.id = RequestId(wire'[c][j].no, k)
                   /\ Unregistered(o.method) =>
                         /\ o.tag = "err" /\ o.val = "MethodNotFound"
                         /\ ~o.hand
      ]_vars

\* the reply of a request for the unregistered method x is on the wire
C14_Witness ==
    \E c \in Conns : \E j \in RepliesOf(c) :
        /\ wire[c][j].body[1].method = "x"
        /\ wire[c][j].body[1].val = "MethodNotFound"
        /\ wire[c][j].body[1].id = RequestId(wire[c][j].no, 1)

\* C15: a request that was put in the queue of its handler is replied to with
\* the value of the handler under its own id, and a batch is replied to once
C15_HandlerValueReplied ==
    \A c \in Conns : \A j \in RepliesOf(c) :
        /\ \A k \in 1..Len(wire[c][j].body) :
              LET o == wire[c][j].body[k]
              IN o.hand => /\ o.tag = "ok" /\ o.val \in Values
                           /\ o.id = RequestId(wire[c][j].no, k)
        /\ \A d \in Conns : \A i \in RepliesOf(d) :
              wire[d][i].no = wire[c][j].no => (d = c /\ i = j)

\* a reply written with finish that answers one request with a value or with
\* MethodNotFound
PlainReply(e) ==
    /\ e.kind = "reply" /\ e.op = "finish"
    /\ Len(e.body) = 1
    /\ e.body[1].tag = "ok" \/ e.body[1].val = "MethodNotFound"

NotificationOut(s, i) ==
    /\ s \in DOMAIN batches /\ i = NewIdx(batches[s])
    /\ i # 0 /\ batches[s].elems[i].kind = "notif"
    /\ s \in DOMAIN batches' => /\ batches'[s].no = batches[s].no
                                /\ batches'[s].elems[i].surf = 1

\* the notification handlers that must not lose notifications
NoLosses == {name \in DOMAIN registered_notifications : ~registered_notifications[name]}

\* notification i of slot s is waiting in the tracker and arrived before
\* notification i2 of slot s2
Earlier(s, i, s2, i2) ==
    /\ s \in DOMAIN batches /\ i \in 1..Len(batches[s].elems)
    /\ batches[s].elems[i].kind = "notif" /\ batches[s].elems[i].st = "new"
    /\ \/ batches[s].no < batches[s2].no
       \/ batches[s].no = batches[s2].no /\ i < i2

\* C17: a notification that is handed out and whose handler must not lose
\* notifications is appended to the queue of the handler, no notification
\* that arrived earlier is still waiting, and the queue of such a handler
\* changes only by this and by the handler taking its head; a property of
\* NotifSpec
C17_NoLossInOrder ==
    [][/\ \A s \in Slots : \A i \in 1..2 :
             (NotificationOut(s, i) /\ batches[s].elems[i].method \in NoLosses) =>
                /\ hqueue'[batches[s].elems[i].method] =
                      Append(hqueue[batches[s].elems[i].method], batches[s].elems[i].param)
                /\ \A s2 \in Slots : \A i2 \in 1..2 : ~Earlier(s2, i2, s, i)
       /\ \A name \in NoLosses :
             \/ hqueue'[name] = hqueue[name]
             \/ hqueue[name] # <<>> /\ hqueue'[name] = Tail(hqueue[name])
             \/ \E s \in Slots : /\ NotificationOut(s, NewIdx(batches[s]))
                                 /\ batches[s].elems[NewIdx(batches[s])].method = name
      ]_vars

\* the handler of n took a notification while the task was waiting for it, and
\* a notification of a later message is queued behind the one that was left
C17_Witness ==
    /\ "n" \in NoLosses
    /\ hqueue["n"] = <<"q", "p">>
    /\ "n" \in parked

\* every sender of the control queue is dropped
SendersDropped == ~Open(from_front)

\* the original reading of C18: once every sender is dropped, the task handles
\* at most one more event before it terminates
C18_AtMostCurrentEvent ==
    [][(SendersDropped /\ TakesMessage) => from_front' = <<Dropped>>]_vars

\* C18: once every sender of the control queue is dropped, the task handles
\* the control messages still queued, one at a time, and no event of the
\* dispatcher; it terminates exactly at the end of the queue, stays
\* terminated, and with a scheduled task and handlers that take what is
\* queued it does terminate; a property of NotifFairSpec
C18_TerminatesAtEndOfQueue ==
    /\ [][/\ SendersDropped =>
                /\ \/ from_front' = from_front
                   \/ TakesMessage /\ Head(from_front) # Dropped
                /\ batches' = batches /\ wire' = wire
          /\ task' = "terminated" /\ task = "running" => from_front = <<Dropped>>
          /\ task = "terminated" => task' = "terminated"
         ]_vars
    /\ SendersDropped ~> (task = "terminated")

\* the senders were dropped and the task has terminated with both handlers
\* registered
C18_Witness ==
    /\ SendersDropped
    /\ task = "terminated"
    /\ DOMAIN registered_notifications = {"n", "l"}

\* the batch in slot s is in the tracker before and after this step
Stays(s) == s \in DOMAIN batches /\ s \in DOMAIN batches' /\ batches'[s].no = batches[s].no

\* the Closed event of connection c is taken in this step
ClosedNow(c) == c \in closed' /\ c \notin closed

\* C19: the tag of a batch changes only from a connection to None, and it
\* does so exactly in the step that takes the Closed event of that connection;
\* a ReadyToSend of a batch without tag starts no transport write, and no
\* reply of such a batch is ever written; a property of RawSpec
C19_TagAbsentOnClosedOnly ==
    /\ [][/\ \A s \in Slots : Stays(s) =>
                /\ batches'[s].user_param # batches[s].user_param =>
                      /\ batches'[s].user_param = None
                      /\ ClosedNow(batches[s].user_param)
                /\ (batches[s].user_param # None /\ ClosedNow(batches[s].user_param)) =>
                      batches'[s].user_param = None
          /\ \A s \in Slots :
                (s \in DOMAIN batches /\ batches[s].user_param = None
                 /\ batches[s].no \in DOMAIN emitted' /\ batches[s].no \notin DOMAIN emitted) =>
                      /\ wire' = wire /\ inflight' = inflight
                      /\ s \notin DOMAIN batches'
         ]_vars
    /\ [](\A no \in DOMAIN emitted : emitted[no].tag = None =>
             \A c \in Conns : \A j \in RepliesOf(c) : wire[c][j].no # no)

\* a request was answered through respond after the Closed event of its
\* connection, and the ReadyToSend of its batch was discarded
C19_Witness ==
    \E no \in DOMAIN emitted :
        /\ emitted[no].tag = None
        /\ emitted[no].ok /\ emitted[no].late

\* subscription id is in the registry before and after this step
SameSubscription(id) ==
    /\ id \in DOMAIN subscriptions /\ id \in DOMAIN subscriptions'
    /\ subscriptions'[id].origin = subscriptions[id].origin

\* C20: a subscription is pending when it is created, its flag is cleared only
\* in the step that completes the write of the reply of the batch of its
\* subscribe request, and a cleared flag is never set again
C20_PendingClearedByOwnReply ==
    [][\A id \in SubIds :
          /\ (id \in DOMAIN subscriptions' /\ id \notin DOMAIN subscriptions) =>
                subscriptions'[id].pending
          /\ SameSubscription(id) =>
                /\ (subscriptions[id].pending /\ ~subscriptions'[id].pending) =>
                      /\ inflight.op = "send" /\ inflight' = NoInflight
                      /\ inflight.no = subscriptions[id].origin
                /\ ~subscriptions[id].pending => ~subscriptions'[id].pending
      ]_vars

\* into_subscription returns Ok on request i of slot s in this step
SubscribedNow(s, i) ==
    /\ Stays(s) /\ i \in 1..Len(batches[s].elems)
    /\ batches[s].elems[i].sub # "Ok" /\ batches'[s].elems[i].sub = "Ok"

\* C21: a successful into_subscription adds exactly one id to the registry, an
\* id that no live subscription has; the request is answered with that id and
\* every SubscriptionState that was there is left as it was; a property of
\* RawSpec
C21_FreshSubscriptionId ==
    [][\A s \in Slots : \A i \in 1..2 : SubscribedNow(s, i) =>
          \E new \in SubIds :
             /\ new \notin DOMAIN subscriptions
             /\ DOMAIN subscriptions' = DOMAIN subscriptions \cup {new}
             /\ \A id \in DOMAIN subscriptions : subscriptions'[id] = subscriptions[id]
             /\ subscriptions'[new].pending
             /\ subscriptions'[new].raw_id = batches[s].user_param
             /\ batches'[s].elems[i].resp = OkResp(WireId(new))
      ]_vars

\* two subscriptions are live: the second was created while the first was
C21_Witness ==
    /\ DOMAIN subscriptions = SubIds
    /\ \E s \in DOMAIN batches : \E i \in 1..Len(batches[s].elems) :
          batches[s].elems[i].sub = "Ok" /\ batches[s].elems[i].resp = OkResp(WireId("B"))

\* request i of slot s is a valid unsubscribe request for the live
\* subscription id: it names the unsubscribe method of the registered
\* subscription that id belongs to
ValidUnsubscribe(s, i, id) ==
    /\ batches[s].elems[i].method \in DOMAIN unsubscribe_methods
    /\ ParsedIds[batches[s].elems[i].param] = id
    /\ id \in DOMAIN subscriptions
    /\ id \in DOMAIN active_subscriptions
    /\ active_subscriptions[id] = unsubscribe_methods[batches[s].elems[i].method]

\* C22: when the background task has handled a valid unsubscribe request for
\* a live subscription, the registry holds no state for it and the count of
\* its connection is one less (the entry removed if it was the last)
C22_UnsubscribeDestroys ==
    [][\A s \in Slots : \A i \in 1..2 : \A id \in SubIds :
          (HandedOut(s, i) /\ ValidUnsubscribe(s, i, id)) =>
             /\ id \notin DOMAIN subscriptions'
             /\ num_subscriptions' =
                   DecrementCount(num_subscriptions, subscriptions[id].raw_id)
      ]_vars

\* C23: from_wire_message applied to the JSON string of the base58 encoding of
\* an id returns that id; applied to a JSON value it returns an error for a
\* value that is no string, for a character outside the alphabet and for
\* more than IdLen decoded bytes, and otherwise IdLen bytes that hold the
\* decoded number behind zero bytes; a property of Base58Spec
C23_Base58RoundTrip ==
    /\ lastret.op = "round_trip" => lastret.ret = Ok(lastret.a)
    /\ lastret.op = "from_wire_message" =>
          LET p == lastret.a
              r == lastret.ret
          IN IF ~p.str \/ \E i \in 1..Len(p.s) : p.s[i] >= 58 THEN ~r.ok
             ELSE LET n == ToNumber(p.s, 58)
                      len == LeadingZeros(p.s) + Len(FromNumber(n, 256))
                  IN IF len > IdLen THEN ~r.ok
                     ELSE /\ r.ok /\ Len(r.v) = IdLen
                          /\ ToNumber(r.v, 256) = n
                          /\ \A i \in 1..(IdLen - len) : r.v[i] = 0

\* an id that starts with a zero byte and ends with the largest byte came
\* back from its encoding
C23_Witness ==
    /\ lastret.op = "round_trip"
    /\ lastret.a[1] = 0 /\ lastret.a[IdLen] = 255
    /\ lastret.ret.ok /\ lastret.ret.v = lastret.a

\* close is called on subscription id in this step: its state is removed and
\* no Closed event is taken
CloseNow(id) ==
    /\ id \in DOMAIN subscriptions /\ id \notin DOMAIN subscriptions'
    /\ closed' = closed

\* C24: close removes the state of the subscription and nothing else from the
\* registry, takes one from the count of its connection (the entry is removed
\* at one), and calls finish on the connection, without a reply, exactly when
\* the count was one and the subscription was not pending; otherwise nothing
\* is written; a property of RawSpec
C24_CloseFinishesLastReady ==
    [][\A id \in SubIds : CloseNow(id) =>
          LET c == subscriptions[id].raw_id
              last == num_subscriptions[c] = 1
          IN /\ subscriptions' = Remove(subscriptions, id)
             /\ c \in DOMAIN num_subscriptions
             /\ IF last THEN num_subscriptions' = Remove(num_subscriptions, c)
                ELSE num_subscriptions' = [num_subscriptions EXCEPT ![c] = @ - 1]
             /\ IF last /\ ~subscriptions[id].pending
                THEN /\ Len(wire'[c]) = Len(wire[c]) + 1
                     /\ wire'[c][Len(wire'[c])].op = "finish"
                     /\ wire'[c][Len(wire'[c])].kind = "close"
                     /\ \A d \in Conns \ {c} : wire'[d] = wire[d]
                     /\ SubSeq(wire'[c], 1, Len(wire[c])) = wire[c]
                ELSE wire' = wire
      ]_vars

\* a connection that is still open was finished by the close of its last
\* subscription
C24_Witness ==
    \E c \in Conns :
        /\ \E j \in 1..Len(wire[c]) : wire[c][j].kind = "close"
        /\ c \notin DOMAIN num_subscriptions
        /\ c \notin closed

\* the batch numbered no of slot s created a subscription, is ready, and no
\* subscription is left on its connection c
ReadyWithoutSubscription(s, c, no) ==
    /\ s \in DOMAIN batches
    /\ batches[s].user_param = c /\ batches[s].no = no
    /\ IsReady(batches[s])
    /\ \E i \in 1..Len(batches[s].elems) : batches[s].elems[i].sub = "Ok"
    /\ SubsOf(subscriptions, c) = {}

\* the reply of batch no was written on c with finish
FinishedReply(c, no) ==
    \E j \in 1..Len(wire[c]) :
        wire[c][j].op = "finish" /\ wire[c][j].kind = "reply" /\ wire[c][j].no = no

\* C25: the close of the last subscription of a connection while it is
\* pending calls nothing on the transport; a reply taken for a connection
\* without subscription is written with finish; and the ready reply of a batch
\* that created a subscription, on a connection left without subscription, is
\* eventually written with finish unless the client closes the connection or
\* a new subscription is created on it first; a property of CloseSpec
C25_PendingCloseReleasesAtReply ==
    /\ [][\A id \in SubIds :
            (CloseNow(id) /\ subscriptions[id].pending
               /\ SubsOf(subscriptions, subscriptions[id].raw_id) = {id})
            => wire' = wire]_vars
    /\ [][\A s \in Slots :
            (inflight = NoInflight /\ inflight' # NoInflight
               /\ s \in DOMAIN batches /\ s \notin DOMAIN batches'
               /\ SubsOf(subscriptions, batches[s].user_param) = {})
            => (inflight'.op = "finish" /\ inflight'.conn = batches[s].user_param)]_vars
    /\ [][(inflight # NoInflight /\ inflight.op = "finish" /\ inflight' = NoInflight)
            => \E c \in Conns, no \in 1..MaxInject :
                  c = inflight.conn /\ no = inflight.no /\ FinishedReply(c, no)']_vars
    /\ \A s \in Slots : \A c \in Conns : \A no \in 1..MaxInject :
          ReadyWithoutSubscription(s, c, no)
             ~> (FinishedReply(c, no) \/ c \in closed \/ SubsOf(subscriptions, c) # {})

\* the reply that carries a subscription id was written with finish on a
\* connection on which nothing else was ever written: its subscription was
\* closed while pending
C25_Witness ==
    \E c \in Conns :
        /\ Len(wire[c]) = 1
        /\ wire[c][1].op = "finish" /\ wire[c][1].kind = "reply"
        /\ \E k \in 1..Len(wire[c][1].body) :
              wire[c][1].body[k].tag = "ok" /\ wire[c][1].body[k].val \in SubIds
        /\ c \notin closed

\* the reply of a batch is written on c in this step
ReplyWritten(c) ==
    /\ Len(wire'[c]) = Len(wire[c]) + 1
    /\ wire'[c][Len(wire'[c])].kind = "reply"

\* C26: the reply of a batch whose connection c is present is written with
\* send exactly when some subscription state refers to c when the reply is
\* taken and when it is written, and with finish otherwise; and the count map
\* has an entry for c exactly when some subscription state refers to c;
\* a property of RawSpec
C26_SendIffSubscribed ==
    /\ [](\A c \in Conns :
            c \in DOMAIN num_subscriptions <=> SubsOf(subscriptions, c) # {})
    /\ [][\A s \in Slots :
            (inflight = NoInflight /\ inflight' # NoInflight /\ s \in DOMAIN batches
               /\ s \notin DOMAIN batches')
            => /\ inflight'.conn = batches[s].user_param
               /\ inflight'.op \in {"send", "finish"}
               /\ inflight'.op = "send"
                    <=> SubsOf(subscriptions, batches[s].user_param) # {}]_vars
    /\ [][\A c \in Conns : ReplyWritten(c) =>
            /\ wire'[c][Len(wire'[c])].op \in {"send", "finish"}
            /\ wire'[c][Len(wire'[c])].op = "send" <=> SubsOf(subscriptions, c) # {}]_vars

\* one reply was written with send and another with finish
C26_Witness ==
    /\ \E c \in Conns : \E j \in 1..Len(wire[c]) :
          wire[c][j].kind = "reply" /\ wire[c][j].op = "send"
    /\ \E c \in Conns : \E j \in 1..Len(wire[c]) :
          wire[c][j].kind = "reply" /\ wire[c][j].op = "finish"

\* the write of a reply with send completes in this step: next_event returns
\* SubscriptionsReady(ReadyIds(subscriptions, inflight.conn))
ReturnsSubscriptionsReady ==
    inflight.op = "send" /\ inflight' = NoInflight /\ wire' # wire

\* C27: the list of a SubscriptionsReady event is not empty and holds exactly
\* the subscriptions of the connection that were pending before the event and
\* are not pending after it
C27_ReadyListsNewlyCleared ==
    [][ReturnsSubscriptionsReady =>
          /\ ReadyIds(subscriptions, inflight.conn) # {}
          /\ ReadyIds(subscriptions, inflight.conn) =
                {id \in DOMAIN subscriptions :
                    /\ subscriptions[id].raw_id = inflight.conn
                    /\ subscriptions[id].pending
                    /\ id \in DOMAIN subscriptions'
                    /\ ~subscriptions'[id].pending}
      ]_vars

\* C28: the step that takes Closed(c) sets to None the tag of every batch of
\* c and changes no other batch; it leaves no count entry and no subscription
\* state of c, and changes no count and no subscription state of another
\* connection; the test that decides whether SubscriptionsClosed is returned
\* (line 218) is true exactly when c had a subscription, and the ids the event
\* lists are exactly the ids removed; a property of RawSpec
C28_ClosedRemovesOnlyOwn ==
    [][\A c \in Conns : ClosedNow(c) =>
          /\ DOMAIN batches' = DOMAIN batches
          /\ \A s \in DOMAIN batches :
                IF batches[s].user_param = c
                THEN batches'[s] = [batches[s] EXCEPT !.user_param = None]
                ELSE batches'[s] = batches[s]
          /\ DOMAIN num_subscriptions' = DOMAIN num_subscriptions \ {c}
          /\ \A d \in DOMAIN num_subscriptions' :
                num_subscriptions'[d] = num_subscriptions[d]
          /\ DOMAIN subscriptions' =
                {id \in DOMAIN subscriptions : subscriptions[id].raw_id # c}
          /\ \A id \in DOMAIN subscriptions' : subscriptions'[id] = subscriptions[id]
          /\ c \in DOMAIN num_subscriptions <=> SubsOf(subscriptions, c) # {}
          /\ ClosedIds(c) = DOMAIN subscriptions \ DOMAIN subscriptions'
          /\ wire' = wire
      ]_vars

\* a connection that had created a subscription is closed, its batch is left
\* without tag, and a subscription of an open connection is still there
C28_Witness ==
    \E c \in closed :
        /\ \E s \in DOMAIN batches :
              /\ batches[s].user_param = None
              /\ \E i \in 1..Len(batches[s].elems) : batches[s].elems[i].sub = "Ok"
        /\ SubsOf(subscriptions, c) = {}
        /\ \E id \in DOMAIN subscriptions : subscriptions[id].raw_id \notin closed

\* C29: when the background task handles a valid unsubscribe request for a
\* live subscription, whichever connection sent the request, owner or not,
\* the id is afterwards in no subscriber list and not in the inverse map, and
\* nothing else changes in the two maps
C29_UnsubscribeFromAnyConnection ==
    [][\A s \in Slots : \A i \in 1..2 : \A id \in SubIds :
          (HandedOut(s, i) /\ ValidUnsubscribe(s, i, id)) =>
             LET uid == active_subscriptions[id]
             IN /\ active_subscriptions' = Remove(active_subscriptions, id)
                /\ DOMAIN subscribed_clients' = DOMAIN subscribed_clients
                /\ \A u \in DOMAIN subscribed_clients :
                      /\ id \notin Range(subscribed_clients'[u])
                      /\ u # uid => subscribed_clients'[u] = subscribed_clients[u]
                /\ Range(subscribed_clients'[uid]) = Range(subscribed_clients[uid]) \ {id}
      ]_vars

\* connection c2 has sent the unsubscribe request for a subscription of
\* connection c1, and the subscription is in no subscriber list and not in the
\* inverse map
C29_Witness ==
    \E s \in DOMAIN batches : \E i \in 1..Len(batches[s].elems) : \E id \in SubIds :
        /\ batches[s].user_param = "c2"
        /\ batches[s].elems[i].kind = "call"
        /\ batches[s].elems[i].surf = 1
        /\ batches[s].elems[i].method \in DOMAIN unsubscribe_methods
        /\ ParsedIds[batches[s].elems[i].param] = id
        /\ id \in DOMAIN subscriptions /\ subscriptions[id].raw_id = "c1"
        /\ id \notin DOMAIN active_subscriptions
        /\ \A u \in DOMAIN subscribed_clients : id \notin Range(subscribed_clients[u])

\* the registrations of name that succeeded: the calls past their inserts, the
\* messages in the control queue and the entries of the background task
Holders(name) ==
    Count([i \in 1..Len(from_front) |->
              from_front[i].type \in {"RegisterMethod", "RegisterNotifications",
                                      "RegisterSubscription"}
              /\ name \in {from_front[i].name, from_front[i].unsub}], TRUE)
    + Cardinality({h \in Clones : callers[h].pc \in {"fetch", "send"}
                                  /\ name \in {callers[h].a, callers[h].b}})
    + (IF name \in registered_methods THEN 1 ELSE 0)
    + (IF name \in DOMAIN registered_notifications THEN 1 ELSE 0)
    + (IF name \in DOMAIN subscribe_methods THEN 1 ELSE 0)
    + (IF name \in DOMAIN unsubscribe_methods THEN 1 ELSE 0)

\* clone h reads or changes the set of names in this step
TouchesNames(h) ==
    /\ callers[h].pc \in {"idle", "first", "second"}
    /\ callers'[h] # callers[h]
    /\ callers'[h].pc # "first"

\* C30: among concurrent registrations at most one succeeds for a name; while
\* a register_subscription call is between its two inserts no other thread
\* reads or changes the set of names, so that a name is refused only when a
\* registration that keeps it has it; and the debug assertions of the
\* background task hold for every RegisterSubscription message it takes;
\* a property of CloneSpec
C30_RegistrationAtomic ==
    /\ [](\A name \in CloneNames : Holders(name) <= 1)
    /\ [](CtlReady("RegisterSubscription") => RegisterSubscriptionAsserts(Head(from_front)))
    /\ [][\A h \in Clones : callers[h].pc = "second" =>
             /\ \A o \in Clones \ {h} : ~TouchesNames(o)
             /\ registered_names' # registered_names => callers'[h] # callers[h]]_vars
    /\ [][\A h \in Clones :
             (TouchesNames(h) /\ callers'[h].ret = "MethodAlreadyRegistered"
                /\ callers'[h].pc = "idle")
             => /\ callers'[h].name \in registered_names
                /\ \A o \in Clones \ {h} :
                      ~(callers[o].pc = "second" /\ callers[o].a = callers'[h].name)
                /\ callers'[h].name \notin registered_names'
                      => (callers[h].pc = "second" /\ callers[h].a = callers[h].b)]_vars

\* a register_subscription call was refused for its unsubscribe name and gave
\* its subscribe name back, and the other clone has registered that name since
C30_Witness ==
    \E h \in Clones : \E o \in Clones \ {h} :
        /\ callers[h].op = "register_subscription" /\ callers[h].pc = "idle"
        /\ callers[h].ret = "MethodAlreadyRegistered"
        /\ callers[h].name = callers[h].b /\ callers[h].a # callers[h].b
        /\ callers[o].op = "register_method" /\ callers[o].a = callers[h].a
        /\ callers[o].ret = "Ok"
        /\ callers[h].a \in registered_methods

\* request i of the batch numbered no, in slot s, has been handed to the
\* background task
Received(s, i, no) ==
    IF s \notin DOMAIN batches THEN FALSE
    ELSE IF batches[s].no # no \/ i > Len(batches[s].elems) THEN FALSE
    ELSE batches[s].elems[i].kind = "call" /\ batches[s].elems[i].surf >= 1

\* that request has a response, or its connection was closed, or the
\* background task has stopped
Settled(s, i, no) ==
    IF s \notin DOMAIN batches THEN TRUE
    ELSE IF batches[s].no # no \/ i > Len(batches[s].elems) THEN TRUE
    ELSE \/ batches[s].elems[i].resp # NoResp
         \/ batches[s].user_param = None
         \/ task # "running"

\* C31: every request handed to the background task on a connection that
\* stays open eventually has a response
C31_EveryRequestAnswered ==
    \A s \in Slots : \A i \in 1..2 : \A no \in 1..MaxInject :
        Received(s, i, no) ~> Settled(s, i, no)

\* C32: a ReadyToSend taken from the batch tracker is not lost: the step that
\* ends the suspended next_event call writes the reply on the connection and,
\* for a reply written with send, leaves no subscription of the connection
\* pending
C32_ReadyToSendNotLost ==
    [][(inflight # NoInflight /\ inflight' # inflight) =>
          \E c \in Conns :
             /\ c = inflight.conn
             /\ Len(wire'[c]) = Len(wire[c]) + 1
             /\ wire'[c][Len(wire'[c])].kind = "reply"
             /\ wire'[c][Len(wire'[c])].no = inflight.no
             /\ wire'[c][Len(wire'[c])].body = inflight.body
             /\ inflight.op = "send" =>
                   \A id \in SubsOf(subscriptions', c) : ~subscriptions'[id].pending
      ]_vars

\* C33: on a connection finish is called at most once and no transport call
\* follows it; stated for the finish that close calls while batches of the
\* connection may be unanswered: it is the last call on its connection
C33_NothingAfterFinish ==
    \A c \in Conns : \A j \in 1..Len(wire[c]) :
        (wire[c][j].op = "finish" /\ wire[c][j].kind = "close") => j = Len(wire[c])

\* C34: the assertions of the background task hold whenever it is about to
\* evaluate them: for the SendOutNotif message at the head of the control
\* queue, for the SubscriptionsClosed event of every connection whose Closed
\* event can be taken, and for the unsubscribe request that is handed out next
C34_AssertionsHold ==
    /\ CtlReady("SendOutNotif") => SendOutNotifAsserts(Head(from_front).uid)
    /\ \A c \in Conns :
          (Polling /\ inflight = NoInflight /\ Drained(batches) /\ c \notin closed
             /\ c \in DOMAIN num_subscriptions)
          => ClosedAsserts(ClosedIds(c))
    /\ \A s \in DOMAIN batches :
          (Polling /\ inflight = NoInflight /\ NewIdx(batches[s]) # 0) =>
             LET e == batches[s].elems[NewIdx(batches[s])]
             IN (/\ e.kind = "call"
                 /\ e.method \notin registered_methods
                 /\ e.method \notin DOMAIN subscribe_methods
                 /\ e.method \in DOMAIN unsubscribe_methods
                 /\ ParsedIds[e.param] # BadParam)
                => UnsubscribeAsserts(unsubscribe_methods[e.method], ParsedIds[e.param])

====
